---- MODULE Spec2Model ----
(***************************************************************************)
(* A model of solitary-forge: the configuration model (models.py), the     *)
(* context builder (context/context_builder.py), the validation system     *)
(* (validation/validation_system.py), the plugin manager (plugin.py), the  *)
(* template renderer, the output manager and the Forge orchestrator        *)
(* (forge.py).                                                             *)
(*                                                                         *)
(* A Python string is a tuple of tokens, a token being a character or a    *)
(* word the program never looks inside, so that str.strip, prefix and      *)
(* suffix tests are computed.  A Python value is a tagged record: a leaf   *)
(* [t |-> "leaf", v |-> x] or a dict [t |-> "dict", m |-> f] with f a      *)
(* function from keys to values.  An optional YAML key is                  *)
(* [present |-> FALSE] or [present |-> TRUE, val |-> x].                   *)
(***************************************************************************)
EXTENDS Integers, Sequences, FiniteSets, TLC

VARIABLES
    doc,        \* the YAML document found at config_path
    parsed,     \* what ForgeConfig.from_yaml_file returned or raised
    forge,      \* the Forge instance, once constructed
    ctorArgs,   \* the arguments the Forge constructor was called with
    repos,      \* what each plugin's git repository holds
    cache,      \* what is at <cache_dir>/<name>, "." being the cache root itself
    files,      \* the files of the project root, by output path
    console,    \* what the output strategy and the validators printed
    last,       \* the outcome of the last orchestrator operation
    providers,  \* ContextBuilder.providers
    context     \* what ContextBuilder.build_context returned

vars == <<doc, parsed, forge, ctorArgs, repos, cache, files, console, last,
          providers, context>>

----------------------------------------------------------------------------
(* Bounds of the model *)

MaxNameLen == 2
MaxPlugins == 2
MaxRender == 2
MaxProviders == 3

----------------------------------------------------------------------------
(* Strings *)

Space == " "
Chars == {Space, "a"}

StrsUpTo(n) == UNION {[1..k -> Chars] : k \in 0..n}

RECURSIVE LStrip(_)
LStrip(s) == IF s # <<>> /\ Head(s) = Space THEN LStrip(Tail(s)) ELSE s

RECURSIVE RStrip(_)
RStrip(s) ==
    IF s # <<>> /\ s[Len(s)] = Space THEN RStrip(SubSeq(s, 1, Len(s) - 1)) ELSE s

\* str.strip(): surrounding whitespace removed, inner whitespace kept
Strip(s) == RStrip(LStrip(s))

Absent == [present |-> FALSE]
Given(x) == [present |-> TRUE, val |-> x]

SeqsUpTo(S, n) == UNION {[1..k -> S] : k \in 0..n}
Range(s) == {s[i] : i \in DOMAIN s}

MaxOf(S) == CHOOSE x \in S : \A y \in S : y <= x
MinOf(S) == CHOOSE x \in S : \A y \in S : x <= y

\* the members of a set of numbers, ascending
RECURSIVE Ascending(_)
Ascending(S) ==
    IF S = {} THEN <<>> ELSE <<MinOf(S)>> \o Ascending(S \ {MinOf(S)})

\* the elements of a set as a list; the order in which Python iterates a set
\* of strings or a directory is not specified
RECURSIVE ListOfSet(_)
ListOfSet(S) ==
    IF S = {} THEN <<>>
    ELSE LET x == CHOOSE y \in S : TRUE IN <<x>> \o ListOfSet(S \ {x})

Ok(x) == [ok |-> TRUE, val |-> x]
Raise(e) == [ok |-> FALSE, err |-> e]

----------------------------------------------------------------------------
(* models.py: PluginConfig, RenderConfig, ForgeConfig *)

DefaultVersion == <<"m">>
EmptyDict == [t |-> "dict", m |-> <<>>]

\* PluginConfig.validate_name, the mutant: the name is checked but returned
\* as written
ValidateNameUnstripped(v) ==
    IF Strip(v) = <<>> THEN Raise("ValidationError") ELSE Ok(v)

ValidateName(v) ==
    IF Strip(v) = <<>> THEN Raise("ValidationError") ELSE Ok(Strip(v))

ValidateGitUrl(v) ==
    IF Strip(v) = <<>> THEN Raise("ValidationError") ELSE Ok(Strip(v))

ValidatePaths(v) ==
    IF Strip(v) = <<>> THEN Raise("ValidationError") ELSE Ok(Strip(v))

\* PluginConfig(**entry): name and git are required, version and config
\* have defaults
PluginConfig(e) ==
    IF ~e.name.present \/ ~e.git.present THEN Raise("ValidationError")
    ELSE LET n == ValidateName(e.name.val)
             g == ValidateGitUrl(e.git.val)
         IN IF ~n.ok \/ ~g.ok THEN Raise("ValidationError")
            ELSE Ok([name |-> n.val, git |-> g.val,
                     version |-> IF e.version.present THEN e.version.val
                                 ELSE DefaultVersion,
                     config |-> IF e.config.present THEN e.config.val
                                ELSE EmptyDict])

\* RenderConfig(**entry): template and output are required
RenderConfig(e) ==
    IF ~e.template.present \/ ~e.output.present THEN Raise("ValidationError")
    ELSE LET t == ValidatePaths(e.template.val)
             o == ValidatePaths(e.output.val)
         IN IF ~t.ok \/ ~o.ok THEN Raise("ValidationError")
            ELSE Ok([template |-> t.val, output |-> o.val])

\* ForgeConfig.validate_plugins, the mutant: an empty list is let through
ValidatePluginsAllowEmpty(v) ==
    LET names == [i \in DOMAIN v |-> v[i].name]
    IN IF Len(names) # Cardinality(Range(names))
       THEN Raise("ValidationError")
       ELSE Ok(v)

\* ForgeConfig.validate_plugins, run on the list of parsed PluginConfig
ValidatePlugins(v) ==
    IF v = <<>> THEN Raise("ValidationError")
    ELSE LET names == [i \in DOMAIN v |-> v[i].name]
         IN IF Len(names) # Cardinality(Range(names))
            THEN Raise("ValidationError")
            ELSE Ok(v)

\* ForgeConfig.validate_render
ValidateRender(v) ==
    IF v = <<>> THEN Raise("ValidationError") ELSE Ok(v)

\* The items of a list field that is given, parsed one by one
Items(results) ==
    IF \E i \in DOMAIN results : ~results[i].ok
    THEN Raise("ValidationError")
    ELSE Ok([i \in DOMAIN results |-> results[i].val])

\* ForgeConfig.plugins: an omitted key takes default_factory=list and the
\* field validator is not run on a default; a key that is given is parsed
\* item by item and then handed to the field validator
PluginsField(field) ==
    IF ~field.present THEN Ok(<<>>)
    ELSE LET items == Items([i \in DOMAIN field.val |-> PluginConfig(field.val[i])])
         IN IF ~items.ok THEN items ELSE ValidatePlugins(items.val)

\* ForgeConfig.render, likewise
RenderField(field) ==
    IF ~field.present THEN Ok(<<>>)
    ELSE LET items == Items([i \in DOMAIN field.val |-> RenderConfig(field.val[i])])
         IN IF ~items.ok THEN items ELSE ValidateRender(items.val)

\* ForgeConfig.model_validate(data)
ModelValidate(data) ==
    LET p == PluginsField(data.plugins)
        r == RenderField(data.render)
    IN IF ~p.ok \/ ~r.ok THEN Raise("ValidationError")
       ELSE Ok([variables |-> IF data.variables.present THEN data.variables.val
                              ELSE EmptyDict,
                plugins |-> p.val,
                render |-> r.val])

EmptyData == [variables |-> Absent, plugins |-> Absent, render |-> Absent]

\* ForgeConfig.from_yaml_file(path); yaml.safe_load of an empty file is None
\* and `data or {}` makes it the empty mapping
FromYamlFile(d) ==
    CASE d.kind = "missing" -> Raise("FileNotFoundError")
      [] d.kind = "badyaml" -> Raise("ValueError")
      [] d.kind = "empty" -> ModelValidate(EmptyData)
      [] OTHER -> ModelValidate(d.data)

----------------------------------------------------------------------------
(* Python values *)

Leaf(x) == [t |-> "leaf", v |-> x]
Dict(f) == [t |-> "dict", m |-> f]
IsDict(x) == x.t = "dict"

\* the dict {k: v}
One(k, v) == [x \in {k} |-> v]

\* the dict f extended or overwritten by g, key by key
Update(f, g) ==
    [k \in DOMAIN f \cup DOMAIN g |-> IF k \in DOMAIN g THEN g[k] ELSE f[k]]

----------------------------------------------------------------------------
(* context/context_builder.py *)

PriorityProjectInfo == 5
PriorityVariables == 10
PriorityEnvironment == 15
PriorityPlugins == 20

KVariables == <<"variables">>
KPlugins == <<"plugins">>
KProjectRoot == <<"project_root">>
KConfigPath == <<"config_path">>
KEnvironment == <<"environment">>
KEnv == <<"env">>
KConfig == <<"config">>
KPath == <<"path">>
KManifest == <<"manifest">>

\* VariablesProvider.get_context_data: a copy of the variables under the key
\* "variables"
VariablesData(variables) == One(KVariables, variables)

\* PluginContextProvider._get_plugin_manifest
GetPluginManifest(plugin) ==
    IF plugin.manifest.present THEN plugin.manifest.val ELSE EmptyDict

\* the entry of one plugin in PluginContextProvider.get_context_data
PluginEntry(plugin) ==
    Dict(Update(Update(One(KConfig, plugin.config), One(KPath, Leaf(plugin.path))),
                One(KManifest, GetPluginManifest(plugin))))

\* plugin_context after the loop over the first n plugins: a later plugin of
\* the same name replaces the earlier entry
RECURSIVE PluginContext(_, _)
PluginContext(plugins, n) ==
    IF n = 0 THEN <<>>
    ELSE Update(PluginContext(plugins, n - 1),
                One(plugins[n].name, PluginEntry(plugins[n])))

\* PluginContextProvider.get_context_data, the mutant: the plugin entries are
\* contributed under the key "variables"
PluginsDataUnderVariables(plugins) ==
    One(KVariables, Dict(PluginContext(plugins, Len(plugins))))

\* PluginContextProvider.get_context_data
PluginsData(plugins) == One(KPlugins, Dict(PluginContext(plugins, Len(plugins))))

\* ProjectInfoProvider.get_context_data
ProjectInfoData(root, path) ==
    Update(One(KProjectRoot, Leaf(root)), One(KConfigPath, Leaf(path)))

\* EnvironmentProvider.get_context_data
EnvironmentData(environment, envVariables) ==
    Update(One(KEnvironment, Leaf(environment)), One(KEnv, envVariables))

\* The providers are records; a provider of a class of the repository has
\* the class's fields, a provider of another class (the ContextProvider
\* protocol admits any) has its priority and its data.
VariablesProvider(variables) == [kind |-> "variables", variables |-> variables]
PluginContextProvider(plugins) == [kind |-> "plugins", plugins |-> plugins]
ProjectInfoProvider(root, path) ==
    [kind |-> "project", project_root |-> root, config_path |-> path]
EnvironmentProvider(environment, envVariables) ==
    [kind |-> "environment", environment |-> environment,
     env_variables |-> envVariables]
OtherProvider(priority, data) ==
    [kind |-> "other", priority |-> priority, data |-> data]

\* provider.get_priority()
GetPriority(p) ==
    CASE p.kind = "variables" -> PriorityVariables
      [] p.kind = "plugins" -> PriorityPlugins
      [] p.kind = "project" -> PriorityProjectInfo
      [] p.kind = "environment" -> PriorityEnvironment
      [] OTHER -> p.priority

\* provider.get_context_data()
GetContextData(p) ==
    CASE p.kind = "variables" -> VariablesData(p.variables)
      [] p.kind = "plugins" -> PluginsData(p.plugins)
      [] p.kind = "project" -> ProjectInfoData(p.project_root, p.config_path)
      [] p.kind = "environment" -> EnvironmentData(p.environment, p.env_variables)
      [] OTHER -> p.data

\* ContextBuilder._deep_merge, the mutant: the source value always replaces
\* the target's
DeepMergeShallow(target, source) == Update(target, source)

\* ContextBuilder._deep_merge(target, source), as the value of target
\* afterwards
RECURSIVE DeepMerge(_, _)
DeepMerge(target, source) ==
    [k \in DOMAIN target \cup DOMAIN source |->
        IF k \notin DOMAIN source THEN target[k]
        ELSE IF k \in DOMAIN target /\ IsDict(target[k]) /\ IsDict(source[k])
             THEN Dict(DeepMerge(target[k].m, source[k].m))
             ELSE source[k]]

\* sorted(): x is put behind every element whose key is not larger
RECURSIVE InsertByPriority(_, _)
InsertByPriority(sorted, x) ==
    IF sorted = <<>> THEN <<x>>
    ELSE IF GetPriority(Head(sorted)) <= GetPriority(x)
         THEN <<Head(sorted)>> \o InsertByPriority(Tail(sorted), x)
         ELSE <<x>> \o sorted

\* sorted(self.providers, key=lambda p: p.get_priority()), a stable sort
RECURSIVE SortedProviders(_)
SortedProviders(ps) ==
    IF ps = <<>> THEN <<>>
    ELSE InsertByPriority(SortedProviders(SubSeq(ps, 1, Len(ps) - 1)), ps[Len(ps)])

\* the loop of build_context over the first n sorted providers
RECURSIVE MergeProviders(_, _)
MergeProviders(sorted, n) ==
    IF n = 0 THEN <<>>
    ELSE DeepMerge(MergeProviders(sorted, n - 1), GetContextData(sorted[n]))

\* ContextBuilder.build_context()
BuildContext(ps) ==
    LET sorted == SortedProviders(ps) IN Dict(MergeProviders(sorted, Len(sorted)))

----------------------------------------------------------------------------
(* exceptions.py: an exception is its class, its message and the name the
   message carries *)

Err(type, text, arg) == [type |-> type, text |-> text, arg |-> arg]
NoError == [type |-> "none"]

\* isinstance(e, PluginError): GitOperationError and DependencyError derive
\* from it
IsPluginError(e) == e.type \in {"PluginError", "GitOperationError", "DependencyError"}

----------------------------------------------------------------------------
(* plugin.py.  `r` is what the plugins' repositories hold, `c` the state of
   the cache directory: for each plugin name "absent", "junk" (a directory
   that is no git checkout) or "repo" (a checkout, holding what the
   repository holds). *)

CacheDir == <<".forge_cache/plugins">>

\* Plugin(name=..., path=cache_dir / name, config=...)
Plugin(name, config, manifest) ==
    [name |-> name, path |-> CacheDir \o <<"/">> \o name, config |-> config,
     manifest |-> manifest]

\* Plugin.has_templates: <path>/templates exists and is a directory
HasTemplates(r, c, plugin) == c[plugin.name] = "repo" /\ r[plugin.name].tdir

J2 == ".j2"
TDockerfile == <<"Dockerfile", J2>>
TExtra == <<"e", J2>>
TCompose == <<"docker-compose.yml", J2>>
\* a file under templates/ whose name does not end in .j2
TScript == <<"entrypoint.sh">>
\* the template file names, in lexicographic order
TemplateOrder == <<TDockerfile, TCompose, TExtra>>
TemplateFiles == Range(TemplateOrder)

\* the members of S in the order of `order`
RECURSIVE InOrder(_, _)
InOrder(order, S) ==
    IF order = <<>> THEN <<>>
    ELSE (IF Head(order) \in S THEN <<Head(order)>> ELSE <<>>)
         \o InOrder(Tail(order), S)

\* Plugin.list_templates(): the files under templates/ that match *.j2,
\* sorted
ListTemplates(r, c, plugin) ==
    IF ~HasTemplates(r, c, plugin) THEN <<>>
    ELSE InOrder(TemplateOrder,
                 {t \in r[plugin.name].templates \cup r[plugin.name].subdirs :
                    t[Len(t)] = J2})

\* the cache root itself, as an entry of the cache: cache_dir / "."
Dot == <<".">>

\* a git command or a removal the plugin manager ran on a plugin's directory
Ran(cmd, name) == [cmd |-> cmd, name |-> name]

\* self.cache_dir / config.name
PluginPath(name) == CacheDir \o <<"/">> \o name

\* PluginManager._clone_plugin: `git` says which git commands succeed.  A
\* failed clone_from is a GitCommandError, after which the directory is
\* removed; a failed checkout leaves _checkout_version as a
\* GitOperationError, which the handler does not catch.  `log` is what was
\* run, in order.
ClonePlugin(c, config, git) ==
    LET cloned == [c EXCEPT ![config.name] = "repo", ![Dot] = "dir"] IN
    IF ~git.clone
    THEN [ok |-> FALSE, cache |-> [c EXCEPT ![config.name] = "absent"],
          err |-> Err("GitOperationError", "Failed to clone plugin", config.name),
          log |-> <<Ran("clone", config.name)>>]
    ELSE IF ~git.checkout
    THEN [ok |-> FALSE, cache |-> cloned,
          err |-> Err("GitOperationError", "Failed to checkout version", config.version),
          log |-> <<Ran("clone", config.name), Ran("checkout", config.name)>>]
    ELSE [ok |-> TRUE, cache |-> cloned, path |-> PluginPath(config.name),
          log |-> <<Ran("clone", config.name), Ran("checkout", config.name)>>]

\* PluginManager._update_plugin.  Repo(plugin_path) raises
\* InvalidGitRepositoryError for what is no checkout: a directory ("junk",
\* or "broken" when it has a .git entry) is removed and cloned again, while
\* shutil.rmtree of a regular file raises NotADirectoryError.
UpdatePlugin(c, config, git) ==
    IF c[config.name] = "file"
    THEN [ok |-> FALSE, cache |-> c,
          err |-> Err("NotADirectoryError", "rmtree", config.name),
          log |-> <<Ran("rmtree", config.name)>>]
    ELSE IF c[config.name] \in {"junk", "broken"}
    THEN LET again == ClonePlugin([c EXCEPT ![config.name] = "absent"], config, git)
         IN [again EXCEPT !.log = <<Ran("rmtree", config.name)>> \o @]
    ELSE IF ~git.fetch
    THEN [ok |-> FALSE, cache |-> c,
          err |-> Err("GitOperationError", "Failed to update plugin", config.name),
          log |-> <<Ran("fetch", config.name)>>]
    ELSE IF ~git.checkout
    THEN [ok |-> FALSE, cache |-> c,
          err |-> Err("GitOperationError", "Failed to checkout version", config.version),
          log |-> <<Ran("fetch", config.name), Ran("checkout", config.name)>>]
    ELSE [ok |-> TRUE, cache |-> c, path |-> PluginPath(config.name),
          log |-> <<Ran("fetch", config.name), Ran("checkout", config.name)>>]

\* PluginManager._ensure_plugin_available, the mutant: what the cache holds
\* is not looked at
EnsureAlwaysClone(c, config, git) == ClonePlugin(c, config, git)

\* PluginManager._ensure_plugin_available
EnsurePluginAvailable(c, config, git) ==
    IF c[config.name] # "absent" THEN UpdatePlugin(c, config, git)
    ELSE ClonePlugin(c, config, git)

ManifestOf(name) ==
    Dict(Update(One(<<"name">>, Leaf(name)), One(<<"version">>, Leaf(<<"1">>))))

\* _load_plugin that does not look for the templates directory
LoadPluginUnchecked(r, c, config, git) ==
    LET e == EnsurePluginAvailable(c, config, git) IN
    IF ~e.ok THEN e
    ELSE IF r[config.name].manifest = "bad"
    THEN [ok |-> FALSE, cache |-> e.cache, log |-> e.log,
          err |-> Err("PluginError", "Failed to load manifest for plugin", config.name)]
    ELSE [ok |-> TRUE, cache |-> e.cache, log |-> e.log,
          plugin |-> [Plugin(config.name, config.config,
                             IF r[config.name].manifest = "ok"
                             THEN Given(ManifestOf(config.name)) ELSE Absent)
                        EXCEPT !.path = e.path]]

\* PluginManager._load_plugin, Plugin.load_manifest included
LoadPlugin(r, c, config, git) ==
    LET e == EnsurePluginAvailable(c, config, git) IN
    IF ~e.ok THEN e
    ELSE IF r[config.name].manifest = "bad"
    THEN [ok |-> FALSE, cache |-> e.cache, log |-> e.log,
          err |-> Err("PluginError", "Failed to load manifest for plugin", config.name)]
    ELSE IF ~r[config.name].tdir
    THEN [ok |-> FALSE, cache |-> e.cache, log |-> e.log,
          err |-> Err("PluginError", "has no templates directory", config.name)]
    ELSE [ok |-> TRUE, cache |-> e.cache, log |-> e.log,
          plugin |-> [Plugin(config.name, config.config,
                             IF r[config.name].manifest = "ok"
                             THEN Given(ManifestOf(config.name)) ELSE Absent)
                        EXCEPT !.path = e.path]]

\* PluginManager.load_plugins, the mutant: the plugins after a failed one
\* are loaded all the same
RECURSIVE LoadPluginsKeepGoing(_, _, _, _, _)
LoadPluginsKeepGoing(r, c, configs, git, n) ==
    IF n = 0 THEN [ok |-> TRUE, cache |-> c, plugins |-> <<>>, log |-> <<>>]
    ELSE LET before == LoadPluginsKeepGoing(r, c, configs, git, n - 1)
             l == LoadPlugin(r, before.cache, configs[n], git[configs[n].name])
         IN IF ~before.ok
            THEN [before EXCEPT !.cache = l.cache, !.log = @ \o l.log]
            ELSE IF ~l.ok
            THEN [ok |-> FALSE, cache |-> l.cache, log |-> before.log \o l.log,
                  err |-> [type |-> "PluginError", text |-> "Failed to load plugin",
                           arg |-> configs[n].name, cause |-> l.err]]
            ELSE [ok |-> TRUE, cache |-> l.cache, log |-> before.log \o l.log,
                  plugins |-> Append(before.plugins, l.plugin)]

\* PluginManager.load_plugins: the loop over the first n configured plugins;
\* the first failure ends it with a PluginError that names the plugin
RECURSIVE LoadPluginsUpTo(_, _, _, _, _)
LoadPluginsUpTo(r, c, configs, git, n) ==
    IF n = 0 THEN [ok |-> TRUE, cache |-> c, plugins |-> <<>>, log |-> <<>>]
    ELSE LET before == LoadPluginsUpTo(r, c, configs, git, n - 1) IN
         IF ~before.ok THEN before
         ELSE LET l == LoadPlugin(r, before.cache, configs[n], git[configs[n].name]) IN
              IF ~l.ok
              THEN [ok |-> FALSE, cache |-> l.cache, log |-> before.log \o l.log,
                    err |-> [type |-> "PluginError", text |-> "Failed to load plugin",
                             arg |-> configs[n].name, cause |-> l.err]]
              ELSE [ok |-> TRUE, cache |-> l.cache, log |-> before.log \o l.log,
                    plugins |-> Append(before.plugins, l.plugin)]

LoadPlugins(r, c, configs, git) == LoadPluginsUpTo(r, c, configs, git, Len(configs))

\* PluginManager.clean_cache(plugin_name): `if plugin_name:` sends None and
\* the empty string to the branch that removes the cache root and makes it
\* again; the root is made again only if it was there
CleanCache(c, plugin_name) ==
    IF plugin_name.present /\ plugin_name.val # <<>>
    THEN LET name == plugin_name.val IN
         IF name \notin DOMAIN c \/ c[name] = "absent" THEN Ok(c)
         ELSE IF c[name] = "file"
         THEN [ok |-> FALSE, val |-> c, err |-> Err("NotADirectoryError", "rmtree", name)]
         ELSE IF name = Dot THEN Ok([n \in DOMAIN c |-> "absent"])
         ELSE Ok([c EXCEPT ![name] = "absent"])
    ELSE IF c[Dot] = "dir"
         THEN Ok([n \in DOMAIN c |-> IF n = Dot THEN "dir" ELSE "absent"])
         ELSE Ok(c)

\* PluginManager.list_cached_plugins(): the directories of the cache root
\* that have a .git entry, in the order iterdir gives them
ListCachedPlugins(c) ==
    IF c[Dot] # "dir" THEN <<>>
    ELSE ListOfSet({n \in DOMAIN c \ {Dot} : c[n] \in {"repo", "broken"}})

----------------------------------------------------------------------------
(* Paths and the files of the project.  A path is the sequence of its
   components; `fs` maps every path that exists to a directory or to a file
   with its content. *)

RECURSIVE Components(_, _)
Components(s, cur) ==
    LET done == IF cur = <<>> \/ cur = <<".">> THEN <<>> ELSE <<cur>> IN
    IF s = <<>> THEN done
    ELSE IF Head(s) = "/" THEN done \o Components(Tail(s), <<>>)
    ELSE Components(Tail(s), Append(cur, Head(s)))

\* pathlib: root / s.  An absolute s replaces root; empty and "."
\* components are dropped, ".." is kept.
JoinPath(root, s) ==
    IF s # <<>> /\ Head(s) = "/" THEN Components(s, <<>>)
    ELSE root \o Components(s, <<>>)

Parent(path) == SubSeq(path, 1, Len(path) - 1)

\* the file a path names to the operating system: a ".." component steps
\* back to the directory above (no symbolic links)
RECURSIVE Normalize(_)
Normalize(path) ==
    IF path = <<>> THEN <<>>
    ELSE LET before == Normalize(Parent(path))
             last_ == path[Len(path)]
         IN IF last_ = <<"..">> THEN Parent(before) ELSE Append(before, last_)

Exists(fs, path) == Normalize(path) = <<>> \/ Normalize(path) \in DOMAIN fs
IsDir(fs, path) ==
    Normalize(path) = <<>>
    \/ (Normalize(path) \in DOMAIN fs /\ fs[Normalize(path)].kind = "dir")
DirNode == [kind |-> "dir"]
FileNode(content) == [kind |-> "file", content |-> content]

\* Path.mkdir(parents=True, exist_ok=True), for the first n components of
\* path: a component that is a file ends it with an OSError, the directories
\* made before it stay
RECURSIVE MkdirParents(_, _, _)
MkdirParents(fs, path, n) ==
    IF n = 0 THEN [ok |-> TRUE, fs |-> fs]
    ELSE LET before == MkdirParents(fs, path, n - 1)
             d == SubSeq(path, 1, n)
         IN IF ~before.ok THEN before
            ELSE IF IsDir(before.fs, d) THEN before
            ELSE IF Exists(before.fs, d) THEN [ok |-> FALSE, fs |-> before.fs]
            ELSE [ok |-> TRUE, fs |-> Update(before.fs, One(Normalize(d), DirNode))]

\* FileSystemOutputStrategy.write_output(path, content), with the defaults
\* create_dirs=True and overwrite=True
FileSystemWriteOutput(fs, path, content) ==
    LET m == MkdirParents(fs, Parent(path), Len(path) - 1) IN
    IF ~m.ok THEN m
    ELSE IF IsDir(m.fs, path) THEN [ok |-> FALSE, fs |-> m.fs]
    ELSE [ok |-> TRUE, fs |-> Update(m.fs, One(Normalize(path), FileNode(content)))]

----------------------------------------------------------------------------
(* validation/validation_system.py *)

ValidationResult(name, errors, warnings) ==
    [is_valid |-> errors = <<>>, validator_name |-> name, errors |-> errors,
     warnings |-> warnings]

KProjectName == <<"project_name">>
UrlSchemes == {"http://", "https://", "git@"}

\* [f(x) for x in xs if keep(x)], given keep(x) and f(x) for every index of
\* xs
Collect(keep, fx) ==
    LET kept == Ascending({i \in DOMAIN keep : keep[i]})
    IN [n \in DOMAIN kept |-> fx[kept[n]]]

\* ConfigValidator.validate: warnings only
ConfigValidator(config) ==
    LET unusual(pc) == pc.git = <<>> \/ Head(pc.git) \notin UrlSchemes
        warn(pc) == Err("warning", "has unusual git URL format", pc.name)
    IN ValidationResult("config_validator", <<>>,
        (IF KProjectName \notin DOMAIN config.variables.m
         THEN <<Err("warning", "Missing recommended variable", KProjectName)>>
         ELSE <<>>)
        \o Collect([i \in DOMAIN config.plugins |-> unusual(config.plugins[i])],
                [i \in DOMAIN config.plugins |-> warn(config.plugins[i])]))

\* PluginValidator.validate
PluginValidator(r, c, plugins) ==
    LET noDir(pl) == ~HasTemplates(r, c, pl)
        noDirErr(pl) == Err("error", "has no templates directory", pl.name)
        empty(pl) == ListTemplates(r, c, pl) = <<>>
        emptyWarn(pl) == Err("warning", "has no templates", pl.name)
    IN ValidationResult("plugin_validator",
        (IF plugins = <<>> THEN <<Err("error", "No plugins available", <<>>)>>
         ELSE <<>>)
        \o Collect([i \in DOMAIN plugins |-> noDir(plugins[i])],
                [i \in DOMAIN plugins |-> noDirErr(plugins[i])]),
        Collect([i \in DOMAIN plugins |-> empty(plugins[i])],
                [i \in DOMAIN plugins |-> emptyWarn(plugins[i])]))

\* the templates the plugins list
AvailableTemplates(r, c, plugins) ==
    UNION {Range(ListTemplates(r, c, plugins[i])) : i \in DOMAIN plugins}

\* TemplateValidator.validate: one error for every template in the set of
\* required templates that no plugin lists
TemplateValidator(r, c, renderConfigs, plugins) ==
    LET required == {renderConfigs[i].template : i \in DOMAIN renderConfigs}
        missing == required \ AvailableTemplates(r, c, plugins)
        errs == ListOfSet(missing)
    IN ValidationResult("template_validator",
        [i \in DOMAIN errs |-> Err("error", "Template not found", errs[i])], <<>>)

\* OutputPathValidator.validate: the errors of the first n render
\* instructions
RECURSIVE OutputPathErrors(_, _, _, _)
OutputPathErrors(fs, root, renderConfigs, n) ==
    IF n = 0 THEN <<>>
    ELSE LET rc == renderConfigs[n]
             seen == {renderConfigs[i].output : i \in 1..(n - 1)}
             dir == Parent(JoinPath(root, rc.output))
         IN OutputPathErrors(fs, root, renderConfigs, n - 1)
            \o (IF rc.output \in seen
                THEN <<Err("error", "Duplicate output path", rc.output)>> ELSE <<>>)
            \o (IF Exists(fs, dir) /\ ~IsDir(fs, dir)
                THEN <<Err("error", "Output directory is not a directory", rc.output)>>
                ELSE <<>>)

\* an output-path validator that also reports the first occurrence of a
\* repeated output value
OutputPathValidatorCountingFirst(fs, root, renderConfigs) ==
    LET firsts == Ascending({i \in DOMAIN renderConfigs :
                    \E j \in (i + 1)..Len(renderConfigs) :
                        /\ renderConfigs[j].output = renderConfigs[i].output
                        /\ \A k \in 1..(i - 1) :
                            renderConfigs[k].output # renderConfigs[i].output})
    IN ValidationResult("output_path_validator",
            OutputPathErrors(fs, root, renderConfigs, Len(renderConfigs))
            \o [n \in DOMAIN firsts |->
                    Err("error", "Duplicate output path", renderConfigs[firsts[n]].output)],
            <<>>)

OutputPathValidator(fs, root, renderConfigs) ==
    ValidationResult("output_path_validator",
                     OutputPathErrors(fs, root, renderConfigs, Len(renderConfigs)),
                     <<>>)

\* ValidationSystem.create_default(project_root).validate_all(config=...,
\* plugins=..., render_configs=..., context=...): every validator is run, in
\* the order it was added, and its result is reported
\* validate_all that stops at the first validator that reports an error
ValidateAllShortCircuit(r, c, fs, root, config, plugins, renderConfigs) ==
    LET results == <<ConfigValidator(config),
                     PluginValidator(r, c, plugins),
                     TemplateValidator(r, c, renderConfigs, plugins),
                     OutputPathValidator(fs, root, renderConfigs)>>
        failed == {i \in DOMAIN results : ~results[i].is_valid}
        ran == IF failed = {} THEN results ELSE SubSeq(results, 1, MinOf(failed))
    IN [valid |-> failed = {}, results |-> ran]

ValidateAll(r, c, fs, root, config, plugins, renderConfigs) ==
    LET results == <<ConfigValidator(config),
                     PluginValidator(r, c, plugins),
                     TemplateValidator(r, c, renderConfigs, plugins),
                     OutputPathValidator(fs, root, renderConfigs)>>
    IN [valid |-> \A i \in DOMAIN results : results[i].is_valid,
        results |-> results]

----------------------------------------------------------------------------
(* rendering/template_renderer.py.  A template directory is named by the
   plugin it belongs to; the text a template renders to is a record of the
   plugin whose file was used, the template and the context. *)

\* template_paths of Forge._create_template_renderer: the directories of the
\* plugins that have one, in the order of the plugins
TemplatePaths(r, c, plugins) ==
    LET has(pl) == HasTemplates(r, c, pl)
        name(pl) == pl.name
    IN Collect([i \in DOMAIN plugins |-> has(plugins[i])],
                [i \in DOMAIN plugins |-> name(plugins[i])])

\* Forge._create_template_renderer(plugins)
CreateTemplateRenderer(r, c, plugins) ==
    LET paths == TemplatePaths(r, c, plugins) IN
    IF paths = <<>>
    THEN Raise(Err("TemplateError", "No template directories found in any plugins",
                   <<>>))
    ELSE Ok([template_paths |-> paths])

\* PluginTemplateLoader.get_template_paths(): the directories that exist
GetTemplatePaths(r, c, templatePaths) ==
    LET exists(n) == c[n] = "repo" /\ r[n].tdir
        same(n) == n
    IN Collect([i \in DOMAIN templatePaths |-> exists(templatePaths[i])],
                [i \in DOMAIN templatePaths |-> same(templatePaths[i])])

\* a loader in which the last directory of the search path that holds the
\* file wins
GetTemplateLastMatch(r, searchPath, template) ==
    LET holds == {i \in DOMAIN searchPath : template \in r[searchPath[i]].templates}
    IN IF holds = {} THEN Raise(Err("TemplateError", "Template not found", template))
       ELSE Ok(searchPath[MaxOf(holds)])

\* env.get_template(name) of a FileSystemLoader: the first directory of the
\* search path that holds a file of that name
GetTemplate(r, searchPath, template) ==
    LET holds == {i \in DOMAIN searchPath : template \in r[searchPath[i]].templates}
    IN IF holds = {} THEN Raise(Err("TemplateError", "Template not found", template))
       ELSE Ok(searchPath[MinOf(holds)])

Rendered(from, template, ctx) ==
    [from |-> from, template |-> template, context |-> ctx, processed |-> "none",
     yaml |-> "mapping"]

NoResults == [order |-> <<>>, at |-> <<>>]

\* results[key] = value of a Python dict, which keeps the keys in the order
\* they were first set
SetItem(d, key, value) ==
    [order |-> IF key \in DOMAIN d.at THEN d.order ELSE Append(d.order, key),
     at |-> Update(d.at, One(key, value))]

\* the loop of JinjaTemplateRenderer.render_templates over the first n
\* render instructions
RECURSIVE RenderUpTo(_, _, _, _, _)
RenderUpTo(r, searchPath, renderConfigs, ctx, n) ==
    IF n = 0 THEN Ok(NoResults)
    ELSE LET before == RenderUpTo(r, searchPath, renderConfigs, ctx, n - 1)
             t == renderConfigs[n].template
             found == GetTemplate(r, searchPath, t)
         IN IF ~before.ok THEN before
            ELSE IF ~found.ok THEN found
            ELSE IF t \in r[found.val].malformed
            THEN Raise(Err("TemplateError", "Failed to render", t))
            ELSE Ok(SetItem(before.val, t,
                    [Rendered(found.val, t, ctx) EXCEPT
                        !.yaml = IF t \in r[found.val].notMapping
                                 THEN "other" ELSE "mapping"]))

\* JinjaTemplateRenderer.render_templates(render_configs, context)
RenderTemplates(r, c, templatePaths, renderConfigs, ctx) ==
    LET searchPath == GetTemplatePaths(r, c, templatePaths) IN
    IF searchPath = <<>>
    THEN Raise(Err("TemplateError", "No template directories available", <<>>))
    ELSE RenderUpTo(r, searchPath, renderConfigs, ctx, Len(renderConfigs))

----------------------------------------------------------------------------
(* generators/registry.py *)

EndsWith(s, suffix) ==
    Len(s) >= Len(suffix) /\ SubSeq(s, Len(s) - Len(suffix) + 1, Len(s)) = suffix

\* the file type auto_detect_generators gives a template name
FileType(template) ==
    IF Head(template) = "Dockerfile" THEN "dockerfile"
    ELSE IF \E i \in DOMAIN template :
                template[i] \in {"compose", "docker-compose", "docker-compose.yml"}
    THEN "compose"
    ELSE IF EndsWith(template, <<"devenv.nix", J2>>) THEN "devenv_nix"
    ELSE IF EndsWith(template, <<"flake.nix", J2>>) THEN "flake_nix"
    ELSE IF EndsWith(template, <<"home.nix", J2>>) THEN "home_nix"
    ELSE "none"

\* GeneratorRegistry.auto_detect_generators(template_names)
AutoDetectGenerators(templateNames) ==
    LET known(t) == FileType(t) # "none"
        gen(t) == [file_type |-> FileType(t), template_name |-> t]
    IN Collect([i \in DOMAIN templateNames |-> known(templateNames[i])],
                [i \in DOMAIN templateNames |-> gen(templateNames[i])])

----------------------------------------------------------------------------
(* output/output_manager.py *)

\* OutputManager.write_rendered_templates: the loop over the first n rendered
\* templates.  config_map holds, for a template, the last render instruction
\* that names it.
RECURSIVE WriteUpTo(_, _, _, _, _, _)
WriteUpTo(strategy, fs, root, rendered, renderConfigs, n) ==
    IF n = 0 THEN [ok |-> TRUE, fs |-> fs, console |-> <<>>, files |-> <<>>]
    ELSE LET before == WriteUpTo(strategy, fs, root, rendered, renderConfigs, n - 1)
             t == rendered.order[n]
             config == renderConfigs[MaxOf({i \in DOMAIN renderConfigs :
                                                renderConfigs[i].template = t})]
             path == JoinPath(root, config.output)
         IN IF ~before.ok THEN before
            ELSE IF strategy = "dry_run"
            THEN [ok |-> TRUE, fs |-> before.fs,
                  console |-> Append(before.console,
                                     [says |-> "Would write to", path |-> path]),
                  files |-> Update(before.files, One(t, path))]
            ELSE LET w == FileSystemWriteOutput(before.fs, path, rendered.at[t])
                 IN IF ~w.ok
                    THEN [ok |-> FALSE, fs |-> w.fs, console |-> before.console,
                          err |-> Err("TemplateError", "Failed to write", config.output)]
                    ELSE [ok |-> TRUE, fs |-> w.fs, console |-> before.console,
                          files |-> Update(before.files, One(t, path))]

WriteRenderedTemplates(strategy, fs, root, rendered, renderConfigs) ==
    WriteUpTo(strategy, fs, root, rendered, renderConfigs, Len(rendered.order))

----------------------------------------------------------------------------
(* context_builder.py and forge.py: the orchestrator *)

\* getattr(obj, name) of a pydantic model, whose fields are the ones the
\* class declares
GetAttr(obj, name) ==
    IF name \in DOMAIN obj THEN Ok(obj[name])
    ELSE Raise(Err("AttributeError", "object has no attribute", <<name>>))

\* ContextBuilder.create_default(config, plugins, project_root, config_path,
\* environment): the providers it adds, in the order it adds them
CreateDefault(config, plugins, root, path, environment) ==
    LET environments == GetAttr(config, "environments") IN
    IF ~environments.ok THEN environments
    ELSE LET envVars == IF environment \in DOMAIN environments.val.m
                        THEN environments.val.m[environment] ELSE EmptyDict
         IN Ok(<<ProjectInfoProvider(root, path)>>
               \o (IF envVars.m # <<>>
                   THEN <<EnvironmentProvider(environment, envVars)>> ELSE <<>>)
               \o <<VariablesProvider(config.variables),
                    PluginContextProvider(plugins)>>)

\* Forge._build_context(plugins)
ForgeBuildContext(f, plugins) ==
    LET builder == CreateDefault(f.config, plugins, f.project_root, f.config_path,
                                 f.environment)
    IN IF ~builder.ok THEN builder ELSE Ok(BuildContext(builder.val))

\* Forge._validate_build(plugins, context)
ValidateBuild(f, r, c, fs, plugins) ==
    ValidateAll(r, c, fs, Components(f.project_root, <<>>), f.config, plugins,
                f.config.render)

\* Forge._create_output_manager()
CreateOutputManager(f) ==
    [strategy |-> "filesystem", base_path |-> Components(f.project_root, <<>>)]

\* Forge._get_generators_from_config()
GetGeneratorsFromConfig(f) ==
    AutoDetectGenerators([i \in DOMAIN f.config.render |-> f.config.render[i].template])

\* Forge._post_process_content(rendered_content, generators, context): the
\* content of a template a generator was detected for is post-processed by
\* the generator of its file type.  The compose generator raises on a text
\* that is not a YAML mapping of services that are mappings.
PostProcessContent(rendered, generators) ==
    LET gen(t) == generators[MaxOf({i \in DOMAIN generators :
                                        generators[i].template_name = t})]
        has(t) == \E i \in DOMAIN generators : generators[i].template_name = t
        fails == {n \in DOMAIN rendered.order :
                    /\ has(rendered.order[n])
                    /\ gen(rendered.order[n]).file_type = "compose"
                    /\ rendered.at[rendered.order[n]].yaml = "other"}
    IN IF fails # {}
       THEN Raise(Err("AttributeError", "object has no attribute",
                      rendered.order[MinOf(fails)]))
       ELSE Ok([order |-> rendered.order,
                at |-> [t \in DOMAIN rendered.at |->
                           IF ~has(t) THEN rendered.at[t]
                           ELSE [rendered.at[t] EXCEPT
                                    !.processed = gen(t).file_type]]])

\* what an operation of the orchestrator came to: the exception it raised,
\* what _build_context and _validate_build gave, the templates rendered, the
\* files and the console afterwards, and the value returned
Outcome(raised, ctx, validation, rendered, fs, con, ret) ==
    [raised |-> raised, ctx |-> ctx, validation |-> validation,
     rendered |-> rendered, fs |-> fs, console |-> con, ret |-> ret]

\* Forge.build() from _create_template_renderer on, the mutant: each file is
\* written as rendered before the generators post-process the contents
RenderAndWriteEarly(f, r, c, fs, plugins, ctx, v) ==
    LET paths == TemplatePaths(r, c, plugins)
        out == CreateOutputManager(f)
        rendered == RenderTemplates(r, c, paths, f.config.render, ctx.val)
        processed == PostProcessContent(rendered.val, GetGeneratorsFromConfig(f))
        early == WriteRenderedTemplates(out.strategy, fs, out.base_path, rendered.val,
                                        f.config.render)
        w == WriteRenderedTemplates(out.strategy, fs, out.base_path, processed.val,
                                    f.config.render)
    IN IF paths = <<>>
       THEN Outcome(Err("TemplateError",
                        "No template directories found in any plugins", <<>>),
                    Given(ctx), Given(v), <<>>, fs, <<>>, Absent)
       ELSE IF ~rendered.ok
       THEN Outcome(rendered.err, Given(ctx), Given(v), <<>>, fs, <<>>, Absent)
       ELSE IF ~processed.ok
       THEN Outcome(processed.err, Given(ctx), Given(v), rendered.val.order,
                    IF early.ok THEN early.fs ELSE fs, <<>>, Absent)
       ELSE IF ~w.ok
       THEN Outcome(w.err, Given(ctx), Given(v), rendered.val.order, w.fs,
                    w.console, Absent)
       ELSE Outcome(NoError, Given(ctx), Given(v), rendered.val.order, w.fs,
                    w.console, Given(w.files))

\* Forge.build() from _create_template_renderer on
RenderAndWrite(f, r, c, fs, plugins, ctx, v) ==
    LET paths == TemplatePaths(r, c, plugins)
        out == CreateOutputManager(f)
        rendered == RenderTemplates(r, c, paths, f.config.render, ctx.val)
        processed == PostProcessContent(rendered.val, GetGeneratorsFromConfig(f))
        w == WriteRenderedTemplates(out.strategy, fs, out.base_path, processed.val,
                                    f.config.render)
    IN IF paths = <<>>
       THEN Outcome(Err("TemplateError",
                        "No template directories found in any plugins", <<>>),
                    Given(ctx), Given(v), <<>>, fs, <<>>, Absent)
       ELSE IF ~rendered.ok
       THEN Outcome(rendered.err, Given(ctx), Given(v), <<>>, fs, <<>>, Absent)
       ELSE IF ~processed.ok
       THEN Outcome(processed.err, Given(ctx), Given(v), rendered.val.order, fs, <<>>,
                    Absent)
       ELSE IF ~w.ok
       THEN Outcome(w.err, Given(ctx), Given(v), rendered.val.order, w.fs,
                    w.console, Absent)
       ELSE Outcome(NoError, Given(ctx), Given(v), rendered.val.order, w.fs,
                    w.console, Given(w.files))

\* Forge.build() after _load_plugins, the mutant: what the context builder
\* raises and what the validators report does not stop the build
ForgeBuildUnchecked(f, r, c, fs, plugins) ==
    LET ctx == ForgeBuildContext(f, plugins)
        v == ValidateBuild(f, r, c, fs, plugins)
    IN RenderAndWrite(f, r, c, fs, plugins,
                      IF ctx.ok THEN ctx ELSE Ok(EmptyDict), v)

\* Forge.build() after _load_plugins
ForgeBuildLoaded(f, r, c, fs, plugins) ==
    LET ctx == ForgeBuildContext(f, plugins)
        v == ValidateBuild(f, r, c, fs, plugins)
    IN IF ~ctx.ok
       THEN Outcome(ctx.err, Given(ctx), Absent, <<>>, fs, <<>>, Absent)
       ELSE IF ~v.valid
       THEN Outcome(Err("ConfigError", "Build validation failed", <<>>),
                    Given(ctx), Given(v), <<>>, fs, <<>>, Absent)
       ELSE RenderAndWrite(f, r, c, fs, plugins, ctx, v)

\* _load_plugins that hands out the plugins of the configuration without
\* asking the plugin manager when every one of them is in the cache
ForgeLoadPluginsCached(f, r, c, git) ==
    IF f.config.plugins = <<>>
    THEN [ok |-> FALSE, cache |-> c, calls |-> <<>>, log |-> <<>>,
          err |-> Err("ConfigError", "No plugins configured", <<>>)]
    ELSE IF \A i \in DOMAIN f.config.plugins : c[f.config.plugins[i].name] = "repo"
    THEN [ok |-> TRUE, cache |-> c, calls |-> <<>>, log |-> <<>>,
          plugins |-> [i \in DOMAIN f.config.plugins |->
                        Plugin(f.config.plugins[i].name, f.config.plugins[i].config,
                               Absent)]]
    ELSE [calls |-> <<f.config.plugins>>] @@ LoadPlugins(r, c, f.config.plugins, git)

\* Forge._load_plugins(); calls lists the arguments of the calls of
\* plugin_manager.load_plugins it made
ForgeLoadPlugins(f, r, c, git) ==
    IF f.config.plugins = <<>>
    THEN [ok |-> FALSE, cache |-> c, calls |-> <<>>, log |-> <<>>,
          err |-> Err("ConfigError", "No plugins configured", <<>>)]
    ELSE [calls |-> <<f.config.plugins>>] @@ LoadPlugins(r, c, f.config.plugins, git)

\* Forge.build(): the outcome, the cache afterwards and the plugins loaded
ForgeBuild(f, r, c, fs, git) ==
    LET l == ForgeLoadPlugins(f, r, c, git) IN
    IF ~l.ok
    THEN [out |-> Outcome(l.err, Absent, Absent, <<>>, fs, <<>>, Absent),
          cache |-> l.cache, loaded |-> Absent, calls |-> l.calls, log |-> l.log]
    ELSE [out |-> ForgeBuildLoaded(f, r, l.cache, fs, l.plugins),
          cache |-> l.cache, loaded |-> Given(l.plugins), calls |-> l.calls,
          log |-> l.log]

\* Forge.build() of an instance whose _build_context returns the context
\* ctx: load, validate, render, post-process, write
ForgeBuildWith(f, r, c, fs, git, ctx) ==
    LET l == ForgeLoadPlugins(f, r, c, git) IN
    IF ~l.ok
    THEN [out |-> Outcome(l.err, Absent, Absent, <<>>, fs, <<>>, Absent),
          cache |-> l.cache, loaded |-> Absent, calls |-> l.calls, log |-> l.log]
    ELSE LET v == ValidateBuild(f, r, l.cache, fs, l.plugins) IN
         [out |-> IF ~v.valid
                  THEN Outcome(Err("ConfigError", "Build validation failed", <<>>),
                               Given(Ok(ctx)), Given(v), <<>>, fs, <<>>, Absent)
                  ELSE RenderAndWrite(f, r, l.cache, fs, l.plugins, Ok(ctx), v),
          cache |-> l.cache, loaded |-> Given(l.plugins), calls |-> l.calls,
          log |-> l.log]

\* Forge.validate_config(): an exception of any step is caught and makes the
\* result False
ForgeValidateConfig(f, r, c, fs, git) ==
    LET l == ForgeLoadPlugins(f, r, c, git) IN
    IF ~l.ok
    THEN [out |-> Outcome(NoError, Absent, Absent, <<>>, fs, <<>>, Given(FALSE)),
          caught |-> Given(l.err), cache |-> l.cache, loaded |-> Absent,
          calls |-> l.calls, log |-> l.log]
    ELSE LET ctx == ForgeBuildContext(f, l.plugins)
             v == ValidateBuild(f, r, l.cache, fs, l.plugins)
         IN IF ~ctx.ok
            THEN [out |-> Outcome(NoError, Given(ctx), Absent, <<>>, fs, <<>>,
                                  Given(FALSE)),
                  caught |-> Given(ctx.err), cache |-> l.cache,
                  loaded |-> Given(l.plugins), calls |-> l.calls, log |-> l.log]
            ELSE [out |-> Outcome(NoError, Given(ctx), Given(v), <<>>, fs, <<>>,
                                  Given(v.valid)),
                  caught |-> Absent, cache |-> l.cache,
                  loaded |-> Given(l.plugins), calls |-> l.calls, log |-> l.log]

\* Forge.list_templates(): the templates of every loaded plugin, by name
ForgeListTemplates(f, r, c, git) ==
    LET l == ForgeLoadPlugins(f, r, c, git) IN
    IF ~l.ok
    THEN [raised |-> l.err, ret |-> Absent, cache |-> l.cache, loaded |-> Absent,
          calls |-> l.calls, log |-> l.log]
    ELSE [raised |-> NoError,
          ret |-> Given([n \in {l.plugins[i].name : i \in DOMAIN l.plugins} |->
                    ListTemplates(r, l.cache,
                        l.plugins[MaxOf({i \in DOMAIN l.plugins :
                                            l.plugins[i].name = n})])]),
          cache |-> l.cache, loaded |-> Given(l.plugins), calls |-> l.calls,
          log |-> l.log]

\* Forge.__init__(config_path, environment, dry_run): the instance, or the
\* ConfigError that wraps what from_yaml_file raised.  dry_run is a parameter
\* of its own, so it is not among the kwargs handed on to the model, and no
\* field is set from it.
ForgeInit(d, root, path, environment, dry_run) ==
    LET config == FromYamlFile(d) IN
    IF ~config.ok
    THEN Raise(Err("ConfigError",
                   IF config.err = "FileNotFoundError"
                   THEN "Configuration file not found"
                   ELSE "Failed to load configuration", path))
    ELSE Ok([built |-> TRUE, config_path |-> path, project_root |-> root,
             config |-> config.val, environment |-> environment])

\* the default configuration of Forge.init_config, as the document that
\* yaml.dump writes and yaml.safe_load reads back: the keys and values of
\* default_config, none of them absent but the plugin's config
DefaultConfig(dirName) ==
    [kind |-> "map",
     data |-> [variables |-> Given(Dict(
                    Update(Update(One(KProjectName, Leaf(dirName)),
                                  One(<<"base_image">>, Leaf(<<"nixos/nix:latest">>))),
                           Update(One(<<"container_name">>, Leaf(dirName \o <<"-dev">>)),
                                  One(<<"workdir">>, Leaf(<<"/workspace">>)))))),
               plugins |-> Given(<<[name |-> Given(<<"core">>),
                                    git |-> Given(<<"https://",
                                        "github.com/solitary-project/forge-plugin-core.git">>),
                                    version |-> Given(<<"main">>),
                                    config |-> Absent]>>),
               render |-> Given(<<[template |-> Given(TDockerfile),
                                   output |-> Given(<<"Dockerfile">>)],
                                  [template |-> Given(TCompose),
                                   output |-> Given(<<"docker-compose.yml">>)]>>)]]

\* init_config that writes whether or not a configuration exists
InitConfigClobbers(d, dirName, path, force) ==
    [raised |-> NoError, doc |-> DefaultConfig(dirName), ret |-> Given(path)]

\* Forge.init_config(project_dir, force) with d what is at
\* project_dir/.forge.yml and dirName the name of the project directory
InitConfig(d, dirName, path, force) ==
    IF d.kind # "missing" /\ ~force
    THEN [raised |-> Err("ConfigError", "Configuration already exists", path),
          doc |-> d, ret |-> Absent]
    ELSE [raised |-> NoError, doc |-> DefaultConfig(dirName), ret |-> Given(path)]

----------------------------------------------------------------------------
(* Parsing a configuration document: Init draws the document, Parse applies
   ForgeConfig.from_yaml_file to it *)

NotYet == [done |-> FALSE]
NoForge == [built |-> FALSE]
NoOp == [op |-> "none"]

GitOk == <<"a">>

RawPluginEntries ==
    {[name |-> n, git |-> Given(GitOk), version |-> Absent, config |-> Absent] :
        n \in {Absent} \cup {Given(s) : s \in StrsUpTo(MaxNameLen)}}
    \cup {[name |-> Given(<<"a">>), git |-> Given(<<Space>>),
           version |-> Absent, config |-> Absent]}

RawRenderEntries ==
    {[template |-> Given(t), output |-> Given(<<"a">>)] : t \in {<<"a">>, <<Space>>}}

OptList(S, n) == {Absent} \cup {Given(l) : l \in SeqsUpTo(S, n)}

ParseDocs ==
    {[kind |-> k] : k \in {"missing", "badyaml", "empty"}}
    \cup {[kind |-> "map",
           data |-> [variables |-> Absent, plugins |-> p, render |-> r]] :
            p \in OptList(RawPluginEntries, MaxPlugins),
            r \in OptList(RawRenderEntries, MaxRender)}

InitParse ==
    /\ doc \in ParseDocs
    /\ parsed = NotYet
    /\ forge = NoForge
    /\ ctorArgs = NoOp
    /\ repos = <<>>
    /\ cache = <<>>
    /\ files = <<>>
    /\ console = <<>>
    /\ last = NoOp
    /\ providers = <<>>
    /\ context = NotYet

\* ForgeConfig.from_yaml_file(config_path)
Parse ==
    /\ ~parsed.done
    /\ parsed' = [done |-> TRUE, res |-> FromYamlFile(doc)]
    /\ UNCHANGED <<doc, forge, ctorArgs, repos, cache, files, console, last,
                   providers, context>>

NextParse == Parse

SpecParse == InitParse /\ [][NextParse]_vars

----------------------------------------------------------------------------
(* Building a context: AddProvider is ContextBuilder.add_provider,
   CallBuildContext is ContextBuilder.build_context *)

NameC == <<"c">>
NameO == <<"o">>
ManifestC ==
    Dict(Update(One(<<"name">>, Leaf(NameC)), One(<<"version">>, Leaf(<<"1">>))))

PluginChoices ==
    {Plugin(NameC, EmptyDict, Absent),
     Plugin(NameC, Dict(One(<<"k">>, Leaf(<<"v">>))), Given(ManifestC)),
     Plugin(NameO, EmptyDict, Absent)}

VariableChoices ==
    {Dict(One(NameC, Leaf(<<"x">>))),
     Dict(Update(One(NameC, Dict(One(<<"k">>, Leaf(<<"w">>)))),
                 One(NameO, Leaf(<<"y">>))))}

\* what a provider of another class may contribute: leaves and nested dicts
\* under the keys p and q
KP == <<"p">>
KQ == <<"q">>
OtherData ==
    {One(KP, Leaf(<<"1">>)),
     One(KP, Dict(One(KQ, Leaf(<<"2">>)))),
     One(KP, Dict(One(KP, Dict(One(KQ, Leaf(<<"3">>)))))),
     One(KP, Dict(One(KP, Dict(One(KP, Leaf(<<"4">>))))))}
OtherPriorities == {PriorityProjectInfo, PriorityPlugins}

ProjectRoot == <<"/", "proj">>
ConfigPath == ProjectRoot \o <<"/", ".forge.yml">>
EnvBase == <<"base">>
EnvDev == <<"dev">>

\* lists of plugins of distinct names, as load_plugins returns them
PluginLists ==
    {l \in SeqsUpTo(PluginChoices, MaxPlugins) :
        /\ l # <<>>
        /\ \A i, j \in DOMAIN l : l[i].name = l[j].name => i = j}

ProviderChoices ==
    {VariablesProvider(v) : v \in VariableChoices}
    \cup {PluginContextProvider(l) : l \in PluginLists}
    \cup {ProjectInfoProvider(ProjectRoot, ConfigPath)}
    \cup {EnvironmentProvider(EnvDev, Dict(One(NameC, Leaf(<<"z">>))))}
    \cup {OtherProvider(pr, d) : pr \in OtherPriorities, d \in OtherData}

InitContext ==
    /\ providers = <<>>
    /\ context = NotYet
    /\ doc = [kind |-> "empty"]
    /\ parsed = NotYet
    /\ forge = NoForge
    /\ ctorArgs = NoOp
    /\ repos = <<>>
    /\ cache = <<>>
    /\ files = <<>>
    /\ console = <<>>
    /\ last = NoOp

\* ContextBuilder.add_provider(provider)
AddProvider ==
    /\ ~context.done
    /\ Len(providers) < MaxProviders
    /\ \E p \in ProviderChoices : providers' = Append(providers, p)
    /\ UNCHANGED <<doc, parsed, forge, ctorArgs, repos, cache, files, console,
                   last, context>>

\* ContextBuilder.build_context()
CallBuildContext ==
    /\ ~context.done
    /\ context' = [done |-> TRUE, res |-> BuildContext(providers)]
    /\ UNCHANGED <<doc, parsed, forge, ctorArgs, repos, cache, files, console,
                   last, providers>>

NextContext == AddProvider \/ CallBuildContext

SpecContext == InitContext /\ [][NextContext]_vars

----------------------------------------------------------------------------
(* The orchestrator: Init draws the configuration document, what the
   plugins' repositories hold and the files of the project; Construct is
   Forge(config_path, environment, dry_run), Build is Forge.build() and
   ValidateConfig is Forge.validate_config(). *)

ProjectRootPath == Components(ProjectRoot, <<>>)
OutDockerfile == <<"Dockerfile">>
OutNested == <<"out", "/", "e">>
OldContent == [from |-> <<"old">>]

ForgePluginEntries ==
    {[name |-> Given(n), git |-> Given(<<"https://", "h">>), version |-> Absent,
      config |-> Absent] : n \in {NameC, NameO}}

ForgeRenderEntries ==
    {[template |-> Given(TDockerfile), output |-> Given(OutDockerfile)],
     [template |-> Given(TExtra), output |-> Given(OutDockerfile)],
     [template |-> Given(TExtra), output |-> Given(OutNested)]}

ForgeVariables == Dict(One(NameC, Leaf(<<"x">>)))

ForgeDocs ==
    {[kind |-> "missing"], [kind |-> "empty"]}
    \cup {[kind |-> "map",
           data |-> [variables |-> Given(ForgeVariables), plugins |-> p,
                     render |-> r]] :
            p \in OptList(ForgePluginEntries, MaxPlugins),
            r \in {Given(l) : l \in SeqsUpTo(ForgeRenderEntries, MaxRender) \ {<<>>}}}

\* what the repositories of the plugins c and o hold
Repo(tdir, templates, manifest) ==
    [tdir |-> tdir, templates |-> templates, manifest |-> manifest,
     malformed |-> {}, notMapping |-> {}, subdirs |-> {}]
RepoWorlds ==
    {[n \in {NameC, NameO} |-> IF n = NameC THEN rc ELSE Repo(TRUE, {TDockerfile}, "absent")] :
        rc \in {Repo(TRUE, {TDockerfile, TExtra}, "ok"),
                Repo(TRUE, {TDockerfile}, "absent"),
                Repo(FALSE, {}, "bad")}}

\* the project root, with a Dockerfile of an earlier build
FilesChoices ==
    {Update(One(ProjectRootPath, DirNode),
            One(ProjectRootPath \o <<OutDockerfile>>, FileNode(OldContent)))}

\* which git commands succeed, the same for every plugin
GitOutcomes ==
    {[n \in {NameC, NameO} |-> g] :
        g \in {[clone |-> TRUE, fetch |-> TRUE, checkout |-> TRUE],
               [clone |-> FALSE, fetch |-> TRUE, checkout |-> TRUE],
               [clone |-> TRUE, fetch |-> FALSE, checkout |-> TRUE]}}

Init ==
    /\ doc \in ForgeDocs
    /\ repos \in RepoWorlds
    /\ files \in FilesChoices
    /\ cache = [n \in {NameC, NameO, Dot} |-> IF n = Dot THEN "dir" ELSE "absent"]
    /\ parsed = NotYet
    /\ forge = NoForge
    /\ ctorArgs = NoOp
    /\ console = <<>>
    /\ last = NoOp
    /\ providers = <<>>
    /\ context = NotYet

\* Forge(config_path, environment=..., dry_run=...)
Construct ==
    /\ ctorArgs = NoOp
    /\ \E environment \in {EnvBase, EnvDev}, dry_run \in BOOLEAN :
        LET f == ForgeInit(doc, ProjectRoot, ConfigPath, environment, dry_run) IN
        /\ ctorArgs' = [op |-> "Forge", environment |-> environment,
                        dry_run |-> dry_run]
        /\ parsed' = [done |-> TRUE, res |-> FromYamlFile(doc)]
        /\ forge' = IF f.ok THEN f.val ELSE NoForge
        /\ last' = [op |-> "init", raised |-> IF f.ok THEN NoError ELSE f.err]
    /\ UNCHANGED <<doc, repos, cache, files, console, providers, context>>

\* the plugins and the result of the latest operation that came to build a
\* context
Prior ==
    IF last.op \in {"build", "validate"} /\ last.ctx.present
    THEN Given([plugins |-> last.loaded.val, ctx |-> last.ctx.val])
    ELSE IF last.op \in {"build", "validate", "list_templates"} THEN last.prior
    ELSE Absent

\* forge.build()
Build ==
    /\ forge.built
    /\ \E git \in GitOutcomes :
       \E b \in {ForgeBuild(forge, repos, cache, files, git)} :
        /\ cache' = b.cache
        /\ files' = b.out.fs
        /\ console' = b.out.console
        /\ last' = [op |-> "build", raised |-> b.out.raised, loaded |-> b.loaded,
                    ctx |-> b.out.ctx, validation |-> b.out.validation,
                    rendered |-> b.out.rendered, ret |-> b.out.ret,
                    caught |-> Absent, filesBefore |-> files, cacheAfter |-> b.cache,
                    prior |-> Prior, calls |-> b.calls, log |-> b.log]
    /\ UNCHANGED <<doc, parsed, forge, ctorArgs, repos, providers, context>>

\* forge.validate_config()
ValidateConfig ==
    /\ forge.built
    /\ \E git \in GitOutcomes :
       \E v \in {ForgeValidateConfig(forge, repos, cache, files, git)} :
        /\ cache' = v.cache
        /\ files' = v.out.fs
        /\ console' = v.out.console
        /\ last' = [op |-> "validate", raised |-> v.out.raised, loaded |-> v.loaded,
                    ctx |-> v.out.ctx, validation |-> v.out.validation,
                    rendered |-> v.out.rendered, ret |-> v.out.ret,
                    caught |-> v.caught, filesBefore |-> files, cacheAfter |-> v.cache,
                    prior |-> Prior, calls |-> v.calls, log |-> v.log]
    /\ UNCHANGED <<doc, parsed, forge, ctorArgs, repos, providers, context>>

\* forge.list_templates()
ListTemplatesOp ==
    /\ forge.built
    /\ \E git \in GitOutcomes :
       \E t \in {ForgeListTemplates(forge, repos, cache, git)} :
        /\ cache' = t.cache
        /\ last' = [op |-> "list_templates", raised |-> t.raised, loaded |-> t.loaded,
                    ctx |-> Absent, validation |-> Absent, rendered |-> <<>>,
                    ret |-> t.ret, caught |-> Absent, filesBefore |-> files,
                    cacheAfter |-> t.cache, prior |-> Prior, calls |-> t.calls,
                    log |-> t.log]
    /\ UNCHANGED <<doc, parsed, forge, ctorArgs, repos, files, console, providers,
                   context>>

Next == Construct \/ Build \/ ValidateConfig \/ ListTemplatesOp

Spec == Init /\ [][Next]_vars

----------------------------------------------------------------------------
(* The plugin manager: Init draws what the repositories hold and what the
   cache directory holds; CallLoadPlugins is PluginManager.load_plugins,
   CallCleanCache is clean_cache and CallListCached is list_cached_plugins. *)

PluginNames == {NameC, NameO}
CacheKinds == {"absent", "file", "junk", "broken", "repo"}

\* the cache directory: a missing root has no entries
CacheStates ==
    {c \in [PluginNames \cup {Dot} -> CacheKinds \cup {"dir"}] :
        /\ c[Dot] \in {"absent", "dir"}
        /\ \A n \in PluginNames : c[n] \in CacheKinds
        /\ c[Dot] = "absent" => \A n \in PluginNames : c[n] = "absent"}

\* parsed plugin references of distinct names
ConfigLists ==
    {l \in SeqsUpTo({[name |-> n, git |-> <<"https://", "h">>,
                      version |-> DefaultVersion, config |-> EmptyDict] :
                        n \in PluginNames}, MaxPlugins) :
        /\ l # <<>>
        /\ \A i, j \in DOMAIN l : l[i].name = l[j].name => i = j}

\* which git commands succeed, plugin by plugin
GitChoices ==
    [PluginNames -> {[clone |-> TRUE, fetch |-> TRUE, checkout |-> TRUE],
                     [clone |-> FALSE, fetch |-> TRUE, checkout |-> TRUE],
                     [clone |-> TRUE, fetch |-> FALSE, checkout |-> TRUE],
                     [clone |-> TRUE, fetch |-> TRUE, checkout |-> FALSE]}]

\* the arguments of clean_cache: None, the empty string, a plugin's name or
\* "."
CleanArgs == {Absent, Given(<<>>), Given(Dot)} \cup {Given(n) : n \in PluginNames}

\* what the checkouts hold: with or without templates/, plugin.yml absent,
\* well-formed or not
LoadWorlds ==
    {[n \in PluginNames |-> IF n = NameC THEN rc ELSE Repo(TRUE, {TDockerfile}, "absent")] :
        rc \in {Repo(TRUE, {TDockerfile, TExtra}, "ok"),
                Repo(TRUE, {TDockerfile}, "absent"),
                Repo(TRUE, {TDockerfile}, "bad"),
                Repo(FALSE, {}, "ok"), Repo(FALSE, {}, "absent"),
                Repo(FALSE, {}, "bad")}}

InitPlugins ==
    /\ repos \in LoadWorlds
    /\ cache \in CacheStates
    /\ last = NoOp
    /\ doc = [kind |-> "empty"]
    /\ parsed = NotYet
    /\ forge = NoForge
    /\ ctorArgs = NoOp
    /\ files = <<>>
    /\ console = <<>>
    /\ providers = <<>>
    /\ context = NotYet

\* plugin_manager.load_plugins(configs)
CallLoadPlugins ==
    /\ \E configs \in ConfigLists, git \in GitChoices :
       \E l \in {LoadPlugins(repos, cache, configs, git)} :
        /\ cache' = l.cache
        /\ last' = [op |-> "load_plugins", configs |-> configs, before |-> cache,
                    res |-> l]
    /\ UNCHANGED <<doc, parsed, forge, ctorArgs, repos, files, console, providers,
                   context>>

\* plugin_manager._load_plugin(config)
CallLoadPlugin ==
    /\ \E configs \in ConfigLists, git \in GitChoices :
       \E l \in {LoadPlugin(repos, cache, configs[1], git[configs[1].name])} :
        /\ cache' = l.cache
        /\ last' = [op |-> "load_plugin", config |-> configs[1], before |-> cache,
                    git |-> git[configs[1].name], res |-> l]
    /\ UNCHANGED <<doc, parsed, forge, ctorArgs, repos, files, console, providers,
                   context>>

\* plugin_manager.clean_cache(plugin_name)
CallCleanCache ==
    /\ \E name \in CleanArgs : \E r \in {CleanCache(cache, name)} :
        /\ cache' = r.val
        /\ last' = [op |-> "clean_cache", plugin_name |-> name, before |-> cache,
                    listedBefore |-> Range(ListCachedPlugins(cache)),
                    raised |-> IF r.ok THEN NoError ELSE r.err]
    /\ UNCHANGED <<doc, parsed, forge, ctorArgs, repos, files, console, providers,
                   context>>

\* plugin_manager.list_cached_plugins()
CallListCached ==
    /\ last' = [op |-> "list_cached_plugins", before |-> cache,
                ret |-> ListCachedPlugins(cache)]
    /\ UNCHANGED <<doc, parsed, forge, ctorArgs, repos, cache, files, console,
                   providers, context>>

NextPlugins == CallLoadPlugins \/ CallLoadPlugin \/ CallCleanCache \/ CallListCached

SpecPlugins == InitPlugins /\ [][NextPlugins]_vars

----------------------------------------------------------------------------
(* The validation system: InitValidate draws what the plugins'
   repositories and the cache hold; CallValidateAll is
   ValidationSystem.create_default().validate_all(config, plugins,
   render_configs) with a configuration, loaded plugins and render
   instructions of its choice. *)

OutUnderFile == <<"Dockerfile", "/", "x">>
ValidateOutputs == {OutDockerfile, OutNested, OutUnderFile}

\* parsed render instructions
ValidateRenderLists ==
    SeqsUpTo({[template |-> t, output |-> o] :
                t \in {TDockerfile, TExtra}, o \in ValidateOutputs}, MaxRender)

\* loaded plugins of distinct names; none when validate_all gets an empty list
ValidatePluginLists ==
    {l \in SeqsUpTo({Plugin(n, EmptyDict, Absent) : n \in PluginNames}, MaxPlugins) :
        \A i, j \in DOMAIN l : l[i].name = l[j].name => i = j}

\* the parsed configuration: with or without project_name, with a usual or
\* an unusual git URL
ValidateConfigs ==
    {[variables |-> v,
      plugins |-> <<[name |-> NameC, git |-> g, version |-> DefaultVersion,
                     config |-> EmptyDict]>>,
      render |-> rl] :
        v \in {EmptyDict, Dict(One(KProjectName, Leaf(<<"x">>)))},
        g \in {<<"https://", "h">>, <<"ftp://", "h">>},
        rl \in ValidateRenderLists}

\* a plugin's cache entry is its repository, or was removed after loading
ValidateCaches ==
    {c \in CacheStates : c[Dot] = "dir" /\ \A n \in PluginNames : c[n] \in {"repo", "absent"}}

InitValidate ==
    /\ repos \in RepoWorlds
    /\ cache \in ValidateCaches
    /\ files \in FilesChoices
    /\ last = NoOp
    /\ doc = [kind |-> "empty"]
    /\ parsed = NotYet
    /\ forge = NoForge
    /\ ctorArgs = NoOp
    /\ console = <<>>
    /\ providers = <<>>
    /\ context = NotYet

\* validation_system.validate_all(config, plugins, config.render); the call
\* changes nothing it reads, so one call is followed from every initial state
CallValidateAll ==
    /\ last = NoOp
    /\ \E config \in ValidateConfigs, plugins \in ValidatePluginLists :
       \E v \in {ValidateAll(repos, cache, files, ProjectRootPath, config, plugins,
                             config.render)} :
        last' = [op |-> "validate_all", config |-> config, plugins |-> plugins,
                 ret |-> v.valid, results |-> v.results]
    /\ UNCHANGED <<doc, parsed, forge, ctorArgs, repos, cache, files, console,
                   providers, context>>

NextValidate == CallValidateAll

SpecValidate == InitValidate /\ [][NextValidate]_vars

----------------------------------------------------------------------------
(* The renderer: InitRender draws what the templates directories of the
   loaded plugins hold; CreateRenderer is Forge._create_template_renderer
   for a list of loaded plugins, RemoveTemplates is a plugin's directory
   going away, CallRenderTemplates is
   JinjaTemplateRenderer.render_templates. *)

\* a templates directory holding the given files, of which some do not
\* compile
Templates(templates, malformed) ==
    [Repo(TRUE, templates, "absent") EXCEPT !.malformed = malformed]

RenderRepos ==
    {Templates({TDockerfile, TExtra}, {}), Templates({TDockerfile}, {}),
     Templates({TExtra}, {}), Templates({}, {}),
     Templates({TDockerfile}, {TDockerfile}), Repo(FALSE, {}, "absent")}
RenderWorlds == [PluginNames -> RenderRepos]

\* the render instructions, which differ in their templates only
RenderLists ==
    SeqsUpTo({[template |-> t, output |-> OutDockerfile] : t \in {TDockerfile, TExtra}},
             MaxRender)
RenderContext == EmptyDict.m

InitRender ==
    /\ repos \in RenderWorlds
    /\ cache = [n \in PluginNames \cup {Dot} |-> IF n = Dot THEN "dir" ELSE "repo"]
    /\ forge = NoForge
    /\ last = NoOp
    /\ doc = [kind |-> "empty"]
    /\ parsed = NotYet
    /\ ctorArgs = NoOp
    /\ files = <<>>
    /\ console = <<>>
    /\ providers = <<>>
    /\ context = NotYet

\* forge._create_template_renderer(plugins)
CreateRenderer ==
    /\ ~forge.built /\ last = NoOp
    /\ \E plugins \in ValidatePluginLists :
       \E t \in {CreateTemplateRenderer(repos, cache, plugins)} :
        IF t.ok
        THEN /\ forge' = [built |-> TRUE, plugins |-> plugins,
                          template_paths |-> t.val.template_paths]
             /\ last' = last
        ELSE /\ forge' = forge
             /\ last' = [op |-> "create_template_renderer", plugins |-> plugins,
                         raised |-> t.err]
    /\ UNCHANGED <<doc, parsed, ctorArgs, repos, cache, files, console, providers,
                   context>>

\* the cached checkout of a plugin is removed
RemoveTemplates ==
    /\ last = NoOp
    /\ \E n \in PluginNames :
        /\ cache[n] = "repo"
        /\ cache' = [cache EXCEPT ![n] = "absent"]
    /\ UNCHANGED <<doc, parsed, forge, ctorArgs, repos, files, console, last,
                   providers, context>>

\* renderer.render_templates(render_configs, context)
CallRenderTemplates ==
    /\ forge.built /\ last = NoOp
    /\ \E rl \in RenderLists :
       \E t \in {RenderTemplates(repos, cache, forge.template_paths, rl, RenderContext)} :
        last' = [op |-> "render_templates", render |-> rl,
                 raised |-> IF t.ok THEN NoError ELSE t.err,
                 results |-> IF t.ok THEN t.val ELSE NoResults]
    /\ UNCHANGED <<doc, parsed, forge, ctorArgs, repos, cache, files, console,
                   providers, context>>

NextRender == CreateRenderer \/ RemoveTemplates \/ CallRenderTemplates

SpecRender == InitRender /\ [][NextRender]_vars

----------------------------------------------------------------------------
(* Initialising a project: InitInit draws what is at .forge.yml;
   CallInitConfig is Forge.init_config(project_dir, force) and ParseBack is
   ForgeConfig.from_yaml_file on what is there afterwards. *)

\* "old: config", a mapping without plugins or render
OldConfig == [kind |-> "map", data |-> EmptyData]
ExistingDocs ==
    {[kind |-> k] : k \in {"missing", "badyaml", "empty"}} \cup {OldConfig}
    \cup {d \in ForgeDocs : d.kind = "map" /\ d.data.plugins = Absent}
\* project_dir.name: a plain name, or the empty name of the root directory
DirNames == {<<"proj">>, <<>>}

InitInit ==
    /\ doc \in ExistingDocs
    /\ parsed = NotYet
    /\ last = NoOp
    /\ forge = NoForge
    /\ ctorArgs = NoOp
    /\ repos = <<>>
    /\ cache = <<>>
    /\ files = <<>>
    /\ console = <<>>
    /\ providers = <<>>
    /\ context = NotYet

\* Forge.init_config(project_dir, force)
CallInitConfig ==
    /\ \E dirName \in DirNames, force \in BOOLEAN :
       \E r \in {InitConfig(doc, dirName, ConfigPath, force)} :
        /\ doc' = r.doc
        /\ last' = [op |-> "init_config", force |-> force, dirName |-> dirName,
                    before |-> doc, raised |-> r.raised, ret |-> r.ret]
    /\ UNCHANGED <<parsed, forge, ctorArgs, repos, cache, files, console, providers,
                   context>>

\* ForgeConfig.from_yaml_file(config_path)
ParseBack ==
    /\ parsed' = [done |-> TRUE, res |-> FromYamlFile(doc), of |-> doc]
    /\ UNCHANGED <<doc, last, forge, ctorArgs, repos, cache, files, console,
                   providers, context>>

NextInit == CallInitConfig \/ ParseBack

SpecInit == InitInit /\ [][NextInit]_vars

----------------------------------------------------------------------------
(* The build pipeline behind the context: InitPipeline draws the
   configuration of a Forge instance, what the plugins' checkouts hold and
   the files of the project; BuildWithContext is Forge.build() of an
   instance whose _build_context returns a context. *)

OutDotDockerfile == <<".", "/", "Dockerfile">>
OutAbove == <<"..", "/", "x">>
OutAbsolute == <<"/", "etc", "/", "x">>
PipelineOutputs == {OutDockerfile, OutDotDockerfile, OutNested, OutAbove, OutAbsolute}
PipelineTemplates == {TDockerfile, TExtra, TCompose, TScript}
\* checkouts of the plugin c: a template that does not compile, a compose
\* template whose text is not a YAML mapping, a file without the .j2 suffix
\* and a directory whose name ends in .j2
PipelineWorlds ==
    RepoWorlds
    \cup {[n \in {NameC, NameO} |->
              IF n = NameC
              THEN [Repo(TRUE, {TDockerfile, TScript}, "ok") EXCEPT !.subdirs = {TExtra}]
              ELSE Repo(TRUE, {TDockerfile}, "absent")]}
    \cup {[n \in {NameC, NameO} |->
              IF n = NameC
              THEN [Repo(TRUE, {TDockerfile, TExtra, TCompose}, "ok") EXCEPT
                        !.malformed = bad, !.notMapping = other]
              ELSE Repo(TRUE, {TDockerfile}, "absent")] :
            bad \in {{}, {TExtra}}, other \in {{}, {TCompose}}}
PipelineDocs ==
    {[kind |-> "map",
      data |-> [variables |-> Given(ForgeVariables),
                plugins |-> Given(<<[name |-> Given(NameC),
                                     git |-> Given(<<"https://", "h">>),
                                     version |-> Absent, config |-> Absent]>>),
                render |-> Given(rl)]] :
        rl \in SeqsUpTo({[template |-> Given(t), output |-> Given(o)] :
                            t \in PipelineTemplates, o \in PipelineOutputs},
                        MaxRender) \ {<<>>}}
PipelineContext == EmptyDict

InitPipeline ==
    /\ doc \in PipelineDocs
    /\ repos \in PipelineWorlds
    /\ files \in FilesChoices
    /\ cache = [n \in {NameC, NameO, Dot} |-> IF n = Dot THEN "dir" ELSE "absent"]
    /\ parsed = [done |-> TRUE, res |-> FromYamlFile(doc)]
    /\ forge = ForgeInit(doc, ProjectRoot, ConfigPath, EnvBase, FALSE).val
    /\ ctorArgs = [op |-> "Forge", environment |-> EnvBase, dry_run |-> FALSE]
    /\ console = <<>>
    /\ last = NoOp
    /\ providers = <<>>
    /\ context = NotYet

\* forge.build(), with _build_context returning a context
BuildWithContext ==
    /\ last = NoOp
    /\ \E git \in GitOutcomes :
       \E b \in {ForgeBuildWith(forge, repos, cache, files, git, PipelineContext)} :
        /\ cache' = b.cache
        /\ files' = b.out.fs
        /\ console' = b.out.console
        /\ last' = [op |-> "build", raised |-> b.out.raised, loaded |-> b.loaded,
                    ctx |-> b.out.ctx, validation |-> b.out.validation,
                    rendered |-> b.out.rendered, ret |-> b.out.ret,
                    caught |-> Absent, filesBefore |-> files, cacheAfter |-> b.cache,
                    prior |-> Absent, calls |-> b.calls, log |-> b.log]
    /\ UNCHANGED <<doc, parsed, forge, ctorArgs, repos, providers, context>>

NextPipeline == BuildWithContext

SpecPipeline == InitPipeline /\ [][NextPipeline]_vars

----------------------------------------------------------------------------
(* Claims about parsing (SpecParse) *)

ParsedOk == parsed.done /\ parsed.res.ok
ParsedConfig == parsed.res.val
GivenEmpty(field) == field.present /\ field.val = <<>>

\* C5, as stated: parsing succeeds only if the plugin list and the render
\* list are both non-empty, so a configuration that gives them empty or omits
\* them (the empty file included) is rejected.
C5_AsStated ==
    ParsedOk => ParsedConfig.plugins # <<>> /\ ParsedConfig.render # <<>>

\* C5, amended: a configuration that gives `plugins` or `render` as an empty
\* sequence is rejected; one that omits the key (the empty file included) is
\* not rejected for it and its list is empty, and a parsed list is empty only
\* when its key was omitted.
C5_EmptyRejectedOmittedAccepted ==
    /\ (parsed.done /\ doc.kind = "map"
            /\ (GivenEmpty(doc.data.plugins) \/ GivenEmpty(doc.data.render)))
        => ~parsed.res.ok
    /\ (parsed.done /\ doc.kind = "empty")
        => parsed.res.ok /\ ParsedConfig.plugins = <<>> /\ ParsedConfig.render = <<>>
    /\ (ParsedOk /\ doc.kind = "map")
        => /\ ParsedConfig.plugins = <<>> <=> ~doc.data.plugins.present
           /\ ParsedConfig.render = <<>> <=> ~doc.data.render.present

\* C5 witness: a document that omits `plugins` and gives a render instruction
\* was parsed without error
C5_Witness ==
    /\ ParsedOk
    /\ doc.kind = "map"
    /\ ~doc.data.plugins.present
    /\ doc.data.render.present
    /\ ParsedConfig.plugins = <<>>
    /\ ParsedConfig.render # <<>>

\* C6: with N plugin references parsing fails or yields N plugins of pairwise
\* distinct names, and two references whose names are equal after trimming
\* make parsing fail.
C6_UniquePluginNames ==
    (parsed.done /\ doc.kind = "map" /\ doc.data.plugins.present) =>
        LET raw == doc.data.plugins.val IN
        /\ parsed.res.ok =>
            /\ Len(ParsedConfig.plugins) = Len(raw)
            /\ \A i, j \in DOMAIN ParsedConfig.plugins :
                ParsedConfig.plugins[i].name = ParsedConfig.plugins[j].name => i = j
        /\ (\E i, j \in DOMAIN raw :
                /\ i # j
                /\ raw[i].name.present /\ raw[j].name.present
                /\ Strip(raw[i].name.val) = Strip(raw[j].name.val))
            => ~parsed.res.ok

\* C6 witness: MaxPlugins references that differ after trimming although one
\* is written with surrounding whitespace, parsed into MaxPlugins plugins
C6_Witness ==
    /\ ParsedOk
    /\ doc.kind = "map" /\ doc.data.plugins.present
    /\ Len(ParsedConfig.plugins) = MaxPlugins
    /\ \E i \in DOMAIN doc.data.plugins.val :
        doc.data.plugins.val[i].name.val # Strip(doc.data.plugins.val[i].name.val)

----------------------------------------------------------------------------
(* Claims about the context builder (SpecContext) *)

Built == context.done
Ctx == context.res.m

OfKind(k) == {i \in DOMAIN providers : providers[i].kind = k}
DefaultKinds == {"variables", "plugins", "project", "environment"}

\* the providers create_default composes: of the repository's classes, one
\* VariablesProvider and one PluginContextProvider among them
DefaultComposition ==
    /\ \A i \in DOMAIN providers : providers[i].kind \in DefaultKinds
    /\ Cardinality(OfKind("variables")) = 1
    /\ Cardinality(OfKind("plugins")) = 1

TheVariables == providers[CHOOSE i \in OfKind("variables") : TRUE].variables.m
ThePlugins == providers[CHOOSE i \in OfKind("plugins") : TRUE].plugins

\* C7: plugin data is not shadowed by project variables: for a plugin named p
\* and variables that have a key p too, context['plugins'][p] is the plugin's
\* {config, path, manifest} record and context['variables'][p] is the
\* variable's value.
C7_PluginsNotShadowed ==
    (Built /\ DefaultComposition) =>
        \A i \in DOMAIN ThePlugins :
            LET pl == ThePlugins[i]
                p == pl.name
            IN p \in DOMAIN TheVariables =>
                /\ KPlugins \in DOMAIN Ctx /\ KVariables \in DOMAIN Ctx
                /\ IsDict(Ctx[KPlugins]) /\ IsDict(Ctx[KVariables])
                /\ p \in DOMAIN Ctx[KPlugins].m /\ p \in DOMAIN Ctx[KVariables].m
                /\ IsDict(Ctx[KPlugins].m[p])
                /\ DOMAIN Ctx[KPlugins].m[p].m = {KConfig, KPath, KManifest}
                /\ Ctx[KPlugins].m[p].m[KConfig] = pl.config
                /\ Ctx[KPlugins].m[p].m[KPath] = Leaf(pl.path)
                /\ Ctx[KPlugins].m[p].m[KManifest] =
                        (IF pl.manifest.present THEN pl.manifest.val ELSE EmptyDict)
                /\ Ctx[KVariables].m[p] = TheVariables[p]

\* C7 witness: a context built from variables with the key c and from a
\* loaded plugin named c
C7_Witness ==
    /\ Built /\ DefaultComposition
    /\ NameC \in DOMAIN TheVariables
    /\ \E i \in DOMAIN ThePlugins : ThePlugins[i].name = NameC
    /\ Ctx[KVariables].m[NameC] # Ctx[KPlugins].m[NameC]

\* the position of provider i in ascending priority order, providers of equal
\* priority in the order they were added
Rank(i) ==
    1 + Cardinality({j \in DOMAIN providers :
            \/ GetPriority(providers[j]) < GetPriority(providers[i])
            \/ GetPriority(providers[j]) = GetPriority(providers[i]) /\ j < i})

\* the providers' contributions in that order
Contributions ==
    [r \in DOMAIN providers |->
        GetContextData(providers[CHOOSE i \in DOMAIN providers : Rank(i) = r])]

\* What the claim says of a sequence of contributions, key by key: a key has
\* the value of the last contribution that has it; if that is a mapping, it
\* is merged, in the same way, with the mappings contributed right before it.
RECURSIVE MergedAsClaimed(_)
MergedAsClaimed(ds) ==
    [k \in UNION {DOMAIN ds[i] : i \in DOMAIN ds} |->
        LET has == {i \in DOMAIN ds : k \in DOMAIN ds[i]}
            final == MaxOf(has)
        IN IF ~IsDict(ds[final][k]) THEN ds[final][k]
           ELSE LET run == {i \in has : \A j \in has : j >= i => IsDict(ds[j][k])}
                    order == Ascending(run)
                IN Dict(MergedAsClaimed([n \in DOMAIN order |-> ds[order[n]][k].m]))]

\* C8: build_context merges the contributions in ascending priority order:
\* the higher priority wins a key path, two mappings are merged recursively,
\* any other value is replaced by the later one, and a key only one provider
\* contributes is kept.
C8_MergeByPriority ==
    Built => Ctx = MergedAsClaimed(Contributions)

\* C8 witness: a provider of priority 20 added before one of priority 5, both
\* contributing a mapping under p, the two mappings sharing a key
C8_Witness ==
    /\ Built
    /\ \E i, j \in DOMAIN providers :
        /\ i < j
        /\ providers[i].kind = "other" /\ providers[j].kind = "other"
        /\ providers[i].priority > providers[j].priority
        /\ IsDict(providers[i].data[KP]) /\ IsDict(providers[j].data[KP])
        /\ DOMAIN providers[i].data[KP].m \cap DOMAIN providers[j].data[KP].m # {}
        /\ providers[i].data[KP] # providers[j].data[KP]
        /\ Ctx[KP] # providers[i].data[KP]
        /\ Ctx[KP] # providers[j].data[KP]

----------------------------------------------------------------------------
(* Claims about the orchestrator (Spec) *)

IsBuild == last.op = "build"
IsValidate == last.op = "validate"
Loaded == last.op \in {"build", "validate"} /\ last.loaded.present
LoadedPlugins == last.loaded.val
RenderConfigs == forge.config.render

\* what the default validation system reports of the configuration, the
\* plugins the operation loaded and the files it found
Report == ValidateBuild(forge, repos, cache, last.filesBefore, LoadedPlugins)

\* the templates of the render instructions that no loaded plugin holds
MissingTemplates ==
    {RenderConfigs[i].template : i \in DOMAIN RenderConfigs}
    \ UNION {repos[LoadedPlugins[i].name].templates : i \in DOMAIN LoadedPlugins}

C2_AsStated ==
    (IsBuild /\ Loaded /\ MissingTemplates # {}) =>
        /\ last.raised.type = "TemplateError"
        /\ last.raised.arg \in MissingTemplates

\* C3, as stated: when exactly one template of the render instructions is
\* held by no loaded plugin, validate_config returns False and the template
\* validator reports exactly one error, which names that template.
C3_AsStated ==
    (IsValidate /\ Loaded /\ Cardinality(MissingTemplates) = 1) =>
        /\ last.ret = Given(FALSE)
        /\ last.validation.present
        /\ \E i \in DOMAIN last.validation.val.results :
            LET res == last.validation.val.results[i] IN
            /\ res.validator_name = "template_validator"
            /\ Len(res.errors) = 1
            /\ res.errors[1].arg \in MissingTemplates

\* C4, as stated: a Forge constructed with dry_run=True writes through the
\* dry-run strategy, so that its builds only report the intended writes and
\* leave every file as it was.
C4_AsStated ==
    (forge.built /\ ctorArgs.dry_run) =>
        /\ CreateOutputManager(forge).strategy = "dry_run"
        /\ IsBuild => files = last.filesBefore

\* C9, as stated: two context builds of the same configuration, plugin list,
\* project root, config path and environment both yield a context, the two
\* contexts are equal, and config.variables is as it was parsed.
C9_AsStated ==
    (Loaded /\ last.ctx.present /\ last.prior.present
        /\ last.prior.val.plugins = LoadedPlugins) =>
        /\ last.ctx.val.ok
        /\ last.prior.val.ctx.ok
        /\ last.ctx.val = last.prior.val.ctx
        /\ forge.config.variables = parsed.res.val.variables

\* C10, as stated: with an environment name that the configuration defines
\* no variables for, context building succeeds and the context's map of the
\* environment's variables is empty.
C10_AsStated ==
    (Loaded /\ last.ctx.present) =>
        /\ last.ctx.val.ok
        /\ KEnv \in DOMAIN last.ctx.val.val.m =>
                last.ctx.val.val.m[KEnv] = EmptyDict

----------------------------------------------------------------------------
(* Claims about the plugin manager (SpecPlugins) *)

IsLoad == last.op = "load_plugins"
IsClean == last.op = "clean_cache"
IsList == last.op = "list_cached_plugins"

\* the position of the plugin whose load failed
FailedAt == CHOOSE i \in DOMAIN last.configs : last.configs[i].name = last.res.err.arg
\* how many of the configured plugins the call came to
Attempted == IF last.res.ok THEN Len(last.configs) ELSE FailedAt

\* what was run on the directory of the plugin `name`, in order
RanOn(name) ==
    LET on(e) == e.name = name
        seg == SelectSeq(last.res.log, on)
    IN [i \in DOMAIN seg |-> seg[i].cmd]

\* what the claim has the resolver run for a cache entry of a kind
Expected(kind) ==
    CASE kind = "absent" -> <<"clone", "checkout">>
      [] kind = "repo" -> <<"fetch", "checkout">>
      [] kind \in {"junk", "broken"} -> <<"rmtree", "clone", "checkout">>

IsPrefix(s, t) == Len(s) <= Len(t) /\ s = SubSeq(t, 1, Len(s))

\* _ensure_plugin_available returned for the i-th plugin
Resolved(i) ==
    \/ last.res.ok
    \/ i < FailedAt
    \/ last.res.err.cause.type = "PluginError"

C12_AsStated ==
    (IsLoad /\ ~last.res.ok /\ last.res.err.cause.type = "GitOperationError"
        /\ "clone" \in Range(RanOn(last.res.err.arg)))
        => cache[last.res.err.arg] = "absent"

\* C13: a call of load_plugins in which the k-th plugin fails raises a
\* PluginError that carries the plugin's name and the cause, returns no
\* plugins and runs nothing for the plugins after the k-th; no plugin is
\* cloned or fetched twice; a call that succeeds returns one Plugin per
\* reference, in the order of the configuration.
C13_AllOrNothing ==
    IsLoad =>
        /\ ~last.res.ok =>
            /\ last.res.err.type = "PluginError"
            /\ \E k \in DOMAIN last.configs : last.res.err.arg = last.configs[k].name
            /\ last.res.err.cause.type # "none"
            /\ "plugins" \notin DOMAIN last.res
            /\ \A i \in DOMAIN last.configs :
                i > FailedAt => RanOn(last.configs[i].name) = <<>>
        /\ \A i \in DOMAIN last.configs :
            Cardinality({n \in DOMAIN RanOn(last.configs[i].name) :
                RanOn(last.configs[i].name)[n] \in {"clone", "fetch"}}) <= 1
        /\ last.res.ok =>
            /\ Len(last.res.plugins) = Len(last.configs)
            /\ \A i \in DOMAIN last.configs :
                last.res.plugins[i].name = last.configs[i].name

\* C13 witness: the first of MaxPlugins plugins failed and the directory of
\* the last one, which was not there, is still not there
C13_Witness ==
    /\ IsLoad /\ ~last.res.ok
    /\ Len(last.configs) = MaxPlugins
    /\ FailedAt = 1
    /\ last.before[last.configs[MaxPlugins].name] = "absent"
    /\ cache[last.configs[MaxPlugins].name] = "absent"

\* C14, as stated: for every name argument, clean(name) leaves every other
\* entry of the cache as it was, and the listing afterwards is the listing
\* before minus that name.
C14_AsStated ==
    (IsClean /\ last.plugin_name.present) =>
        /\ \A n \in PluginNames \ {last.plugin_name.val} : cache[n] = last.before[n]
        /\ Range(ListCachedPlugins(cache)) = last.listedBefore \ {last.plugin_name.val}

\* C15, as stated: after clean(None) the listing is empty and the cache root
\* exists, whatever the cache held; and a listing holds only names of
\* directories of the cache root that have a .git entry.
C15_AsStated ==
    /\ (IsClean /\ ~last.plugin_name.present) =>
        /\ ListCachedPlugins(cache) = <<>>
        /\ cache[Dot] = "dir"
    /\ IsList =>
        \A i \in DOMAIN last.ret :
            /\ last.ret[i] \in PluginNames
            /\ last.before[last.ret[i]] \in {"repo", "broken"}

----------------------------------------------------------------------------
(* Claims about the validation system (SpecValidate) *)

IsValidateAll == last.op = "validate_all"
ValidatorNames ==
    <<"config_validator", "plugin_validator", "template_validator",
      "output_path_validator">>

\* C16: validate_all never short-circuits: every call reports one result
\* for each registered validator, in registration order, each the result of
\* that validator on the data of the call, also after an earlier validator
\* failed; the boolean returned is the conjunction of the is_valid flags,
\* and a validator is valid exactly when it has no errors, whatever its
\* warnings.
C16_NeverShortCircuits ==
    IsValidateAll =>
        LET res == last.results IN
        /\ [i \in DOMAIN res |-> res[i].validator_name] = ValidatorNames
        /\ res[1] = ConfigValidator(last.config)
        /\ res[2] = PluginValidator(repos, cache, last.plugins)
        /\ res[3] = TemplateValidator(repos, cache, last.config.render, last.plugins)
        /\ res[4] = OutputPathValidator(files, ProjectRootPath, last.config.render)
        /\ last.ret = (\A i \in DOMAIN res : res[i].is_valid)
        /\ last.ret = (\A i \in DOMAIN res : res[i].errors = <<>>)

\* a call where the config validator passes with a warning, the plugin
\* validator fails and the output-path validator, two validators later,
\* still reports its own errors
C16_Witness ==
    /\ IsValidateAll
    /\ Len(last.results) = 4
    /\ last.results[1].is_valid /\ last.results[1].warnings # <<>>
    /\ ~last.results[2].is_valid
    /\ ~last.results[4].is_valid
    /\ ~last.ret

\* the instructions whose output value already occurred earlier in the list
Repeats(rl) == {i \in DOMAIN rl : \E j \in 1..(i - 1) : rl[j].output = rl[i].output}
DuplicateErrors(result) ==
    LET k == Ascending({i \in DOMAIN result.errors :
                          result.errors[i].text = "Duplicate output path"})
    IN [n \in DOMAIN k |-> result.errors[k[n]].arg]

\* C17: the output-path validator reports one 'Duplicate output path' error
\* for every instruction whose output value occurred earlier in the list,
\* and none otherwise; the results of the config, plugin and template
\* validators are the same whatever the output values are.
C17_DuplicateOutputs ==
    IsValidateAll =>
        LET rl == last.config.render
            rep == Ascending(Repeats(rl))
            dup == DuplicateErrors(last.results[4])
        IN /\ dup = [n \in DOMAIN rep |-> rl[rep[n]].output]
           /\ (dup # <<>>) <=>
                (\E i, j \in DOMAIN rl : i # j /\ rl[i].output = rl[j].output)
           /\ \A outs \in [DOMAIN rl -> ValidateOutputs] :
                LET rl2 == [i \in DOMAIN rl |-> [rl[i] EXCEPT !.output = outs[i]]]
                    config2 == [last.config EXCEPT !.render = rl2]
                IN /\ ConfigValidator(config2) = last.results[1]
                   /\ PluginValidator(repos, cache, last.plugins) = last.results[2]
                   /\ TemplateValidator(repos, cache, rl2, last.plugins)
                        = last.results[3]

\* two instructions write the same output, and only the output-path
\* validator fails, with exactly one duplicate error
C17_Witness ==
    /\ IsValidateAll
    /\ Repeats(last.config.render) # {}
    /\ \A i \in 1..3 : last.results[i].is_valid
    /\ Len(DuplicateErrors(last.results[4])) = 1
    /\ ~last.ret

----------------------------------------------------------------------------
(* Claims about the renderer (SpecRender) *)

IsRender == last.op = "render_templates"
IsCreateRenderer == last.op = "create_template_renderer"

\* the plugin's templates directory exists now
DirExists(name) == cache[name] = "repo" /\ repos[name].tdir
\* the plugins of the renderer, in the order of the configuration, whose
\* templates directory still exists and holds the template
Holders(t) ==
    {i \in DOMAIN forge.plugins :
        /\ DirExists(forge.plugins[i].name)
        /\ t \in repos[forge.plugins[i].name].templates}
Winner(t) == forge.plugins[MinOf(Holders(t))].name
NoDirectoryLeft == \A i \in DOMAIN forge.plugins : ~DirExists(forge.plugins[i].name)
NotContained(t) == Holders(t) = {}
DoesNotCompile(t) == Holders(t) # {} /\ t \in repos[Winner(t)].malformed
\* every rendered template comes from the first plugin that holds it
FirstMatchWins ==
    \A t \in DOMAIN last.results.at :
        Holders(t) # {} /\ last.results.at[t].from = Winner(t)

\* C18 as the claim has it: rendered templates come from the first plugin,
\* in configuration order, whose directory still exists and holds the name,
\* and a TemplateError is raised only if no directory is left or none holds
\* the name of some instruction.
C18_AsStated ==
    /\ IsRender =>
        /\ FirstMatchWins
        /\ last.raised # NoError =>
            \/ NoDirectoryLeft
            \/ \E i \in DOMAIN last.render : NotContained(last.render[i].template)
    /\ IsCreateRenderer =>
        \A i \in DOMAIN last.plugins : ~DirExists(last.plugins[i].name)

\* C18: template lookup is first-match-wins in configuration order among
\* the plugin directories that still exist at render time; removed
\* directories are skipped without error.  A TemplateError is raised exactly
\* when no directory is left, or, for the first instruction this is true of,
\* no directory holds its template or the file that wins does not compile;
\* otherwise every instruction's template is rendered from its winner.
C18_FirstMatchOrRenderFailure ==
    /\ IsRender =>
        LET rl == last.render
            bad == {i \in DOMAIN rl : NotContained(rl[i].template)
                                       \/ DoesNotCompile(rl[i].template)}
        IN /\ FirstMatchWins
           /\ IF NoDirectoryLeft
              THEN last.raised = Err("TemplateError",
                                     "No template directories available", <<>>)
              ELSE IF bad # {}
              THEN LET t == rl[MinOf(bad)].template IN
                   last.raised = Err("TemplateError",
                                     IF NotContained(t) THEN "Template not found"
                                     ELSE "Failed to render", t)
              ELSE /\ last.raised = NoError
                   /\ DOMAIN last.results.at = {rl[i].template : i \in DOMAIN rl}
    /\ IsCreateRenderer =>
        /\ last.raised.type = "TemplateError"
        /\ \A i \in DOMAIN last.plugins : ~DirExists(last.plugins[i].name)

\* both plugins hold the template, the directory of the first one was
\* removed after the renderer was made, and the template is rendered from
\* the second
C18_Witness ==
    /\ IsRender
    /\ Len(forge.plugins) = 2
    /\ Len(forge.template_paths) = 2
    /\ \E i \in DOMAIN last.render :
        LET t == last.render[i].template IN
        /\ \A k \in 1..2 : t \in repos[forge.plugins[k].name].templates
        /\ ~DirExists(forge.plugins[1].name)
        /\ last.raised = NoError
        /\ last.results.at[t].from = forge.plugins[2].name

----------------------------------------------------------------------------
(* Claims about initialising a project (SpecInit) *)

IsInitConfig == last.op = "init_config"

\* C19: init_config refuses to clobber: when something is at .forge.yml and
\* force is false it raises ConfigError and what is there stays as it was;
\* when force is true or nothing is there it raises nothing, returns the
\* path and writes the default configuration, and from_yaml_file on what it
\* wrote gives a configuration of exactly one plugin and two render
\* instructions.
C19_InitRefusesToClobber ==
    /\ [][last' # last /\ last'.op = "init_config" =>
            IF doc.kind # "missing" /\ ~last'.force
            THEN last'.raised.type = "ConfigError" /\ doc' = doc
            ELSE /\ last'.raised = NoError
                 /\ last'.ret = Given(ConfigPath)
                 /\ doc' = DefaultConfig(last'.dirName)
                 /\ FromYamlFile(doc').ok
                 /\ Len(FromYamlFile(doc').val.plugins) = 1
                 /\ Len(FromYamlFile(doc').val.render) = 2]_vars
    /\ [](parsed.done /\ (\E n \in DirNames : parsed.of = DefaultConfig(n)) =>
            /\ parsed.res.ok
            /\ Len(parsed.res.val.plugins) = 1
            /\ Len(parsed.res.val.render) = 2)

\* a forced init_config over an existing configuration was parsed back,
\* and a later call without force was refused
C19_Witness ==
    /\ IsInitConfig
    /\ ~last.force /\ last.raised.type = "ConfigError"
    /\ last.before = DefaultConfig(last.dirName) /\ doc = last.before
    /\ parsed.done /\ parsed.of = doc /\ parsed.res.ok

----------------------------------------------------------------------------
(* Claims about errors of the orchestrator (Spec) *)

DomainErrors == {"ConfigError", "PluginError", "TemplateError"}

\* C20 as the claim has it: no build and no validate_config catches a
\* ConfigError, PluginError or TemplateError raised inside it and returns
\* normally; the error reaches the caller as the exception raised.
C20_AsStated ==
    last.op \in {"build", "validate"} =>
        (last.caught.present /\ last.caught.val.type \in DomainErrors =>
            last.raised = last.caught.val)

----------------------------------------------------------------------------
(* Claims about the build pipeline (SpecPipeline) *)

Passed == IsBuild /\ Loaded /\ last.validation.present /\ last.validation.val.valid
Succeeded == Passed /\ last.raised = NoError
\* the file the i-th render instruction is to be written to
OutputFile(i) == Normalize(JoinPath(ProjectRootPath, RenderConfigs[i].output))

\* C21 as the claim has it: a build that passed validation and succeeded
\* returns a mapping with one entry for every render instruction, and the
\* output path of every instruction holds the rendering of its template.
C21_AsStated ==
    Succeeded =>
        /\ Cardinality(DOMAIN last.ret.val) = Len(RenderConfigs)
        /\ \A i \in DOMAIN RenderConfigs :
            /\ OutputFile(i) \in DOMAIN files
            /\ files[OutputFile(i)].kind = "file"
            /\ files[OutputFile(i)].content.template = RenderConfigs[i].template

----------------------------------------------------------------------------
(* Claims about loading one plugin (SpecPlugins) *)

IsLoadOne == last.op = "load_plugin"
\* the call came to a local path for the plugin
PathResolved ==
    IsLoadOne /\ EnsurePluginAvailable(last.before, last.config, last.git).ok

\* C22: once the plugin's local path is resolved, _load_plugin raises a
\* PluginError exactly when the path has no templates directory or holds a
\* plugin.yml that is not a manifest; with no plugin.yml it returns a Plugin
\* whose manifest is None, with a well-formed one a Plugin that carries it.
C22_LoadPluginErrors ==
    PathResolved =>
        LET w == repos[last.config.name] IN
        /\ ~last.res.ok <=> (~w.tdir \/ w.manifest = "bad")
        /\ ~last.res.ok => last.res.err.type = "PluginError"
        /\ last.res.ok =>
            /\ last.res.plugin.name = last.config.name
            /\ last.res.plugin.manifest =
                    IF w.manifest = "absent" THEN Absent
                    ELSE Given(ManifestOf(last.config.name))

\* a checkout without templates directory whose plugin.yml is absent is
\* refused
C22_Witness ==
    /\ PathResolved
    /\ ~repos[last.config.name].tdir
    /\ repos[last.config.name].manifest = "absent"
    /\ ~last.res.ok
    /\ last.res.err = Err("PluginError", "has no templates directory",
                          last.config.name)

----------------------------------------------------------------------------
(* Claims about plugin resolution by the orchestrator (Spec) *)

IsForgeOp == last.op \in {"build", "validate", "list_templates"}

\* C23 as the claim has it: every build, validate_config and list_templates
\* calls load_plugins exactly once, with the configured plugin list.
C23_AsStated ==
    IsForgeOp => last.calls = <<forge.config.plugins>>

\* C23: every build, validate_config and list_templates of a configuration
\* with plugins calls load_plugins exactly once, with the configured plugin
\* list, the plugin manager runs its git commands anew, and the plugins and
\* the context of the call are the ones this call loaded and built; with no
\* plugin configured load_plugins is not called and the operation fails
\* with ConfigError (validate_config returns False).
C23_ResolvedOnEveryCall ==
    IsForgeOp =>
        IF forge.config.plugins = <<>>
        THEN /\ last.calls = <<>>
             /\ ~last.loaded.present
             /\ IF IsValidate
                THEN last.ret = Given(FALSE) /\ last.caught.val.type = "ConfigError"
                ELSE last.raised.type = "ConfigError"
        ELSE /\ last.calls = <<forge.config.plugins>>
             /\ last.log # <<>>
             /\ last.log[1].name = forge.config.plugins[1].name
             /\ last.loaded.present =>
                    /\ [i \in DOMAIN LoadedPlugins |-> LoadedPlugins[i].name]
                        = [i \in DOMAIN forge.config.plugins |->
                                forge.config.plugins[i].name]
                    /\ Len(last.log) = 2 * Len(forge.config.plugins)
             /\ last.ctx.present =>
                    last.ctx.val = ForgeBuildContext(forge, LoadedPlugins)

\* list_templates after an earlier operation had loaded the same plugins:
\* the plugin manager is asked again and fetches the cached checkout
C23_Witness ==
    /\ last.op = "list_templates"
    /\ last.prior.present
    /\ last.raised = NoError
    /\ last.calls = <<forge.config.plugins>>
    /\ last.log[1].cmd = "fetch"

----------------------------------------------------------------------------
(* Claims about the stages of a build (SpecPipeline) *)

\* the templates of the render instructions
AskedTemplates == {RenderConfigs[i].template : i \in DOMAIN RenderConfigs}
RenderFailed == IsBuild /\ Passed /\ last.raised.type = "TemplateError"
PostProcessFailed == IsBuild /\ Passed /\ last.raised.type = "AttributeError"

\* C24: a build runs load plugins, build context, validate, render,
\* post-process, write in that order: a stage has run only if every stage
\* before it has completed, every template of the render list is rendered
\* and post-processed before a file is written, and a build that fails
\* while rendering or post-processing leaves the files of the project as
\* they were.
C24_StagesInOrder ==
    IsBuild =>
        /\ last.ctx.present => last.loaded.present
        /\ last.validation.present => last.ctx.present /\ last.ctx.val.ok
        /\ last.rendered # <<>> => Passed
        /\ files # last.filesBefore =>
            /\ Passed
            /\ {last.rendered[i] : i \in DOMAIN last.rendered} = AskedTemplates
            /\ ~RenderFailed /\ ~PostProcessFailed
        /\ RenderFailed \/ PostProcessFailed =>
            files = last.filesBefore /\ ~last.ret.present

\* a build whose compose file could not be post-processed after its
\* Dockerfile had been rendered, bound for a file that did not exist
C24_Witness ==
    /\ PostProcessFailed
    /\ last.raised.arg = TCompose
    /\ Len(last.rendered) = 2
    /\ \E i \in DOMAIN RenderConfigs :
        /\ RenderConfigs[i].template = TDockerfile
        /\ OutputFile(i) \notin DOMAIN last.filesBefore

----------------------------------------------------------------------------
(* generators/dockerfile.py.  A text is the sequence of its lines
   (str.split on the line feed, str.join with it), a line a tuple of tokens:
   "RUN" stands for the three letters, " " for one space. *)

RunPrefix == <<"RUN", " ">>
Indent == <<" ", " ", " ", " ">>
AndThen == <<" ", "&&", " ", "\\">>

\* stripped.startswith('RUN ')
IsRunLine(line) ==
    LET stripped == Strip(line)
    IN Len(stripped) >= 2 /\ SubSeq(stripped, 1, 2) = RunPrefix

\* stripped[4:]
RunCommand(line) == SubSeq(Strip(line), 3, Len(Strip(line)))

\* "RUN " + " && \\\n    ".join(run_buffer), as the lines it makes
CombinedRun(run_buffer) ==
    [i \in DOMAIN run_buffer |->
        (IF i = 1 THEN RunPrefix ELSE Indent)
        \o run_buffer[i]
        \o (IF i < Len(run_buffer) THEN AndThen ELSE <<>>)]

RECURSIVE OptimizeFrom(_, _, _)
OptimizeFrom(lines, i, run_buffer) ==
    IF i > Len(lines) THEN CombinedRun(run_buffer)
    ELSE IF IsRunLine(lines[i])
    THEN OptimizeFrom(lines, i + 1, Append(run_buffer, RunCommand(lines[i])))
    ELSE CombinedRun(run_buffer) \o <<lines[i]>> \o OptimizeFrom(lines, i + 1, <<>>)

\* DockerfileGenerator._optimize_run_commands(content)
OptimizeRunCommands(content) == OptimizeFrom(content, 1, <<>>)

\* DockerfileGenerator.post_process_content(content, context), with
\* optimize_layers and include_healthcheck at their defaults
DockerfilePostProcess(content) == OptimizeRunCommands(content)

----------------------------------------------------------------------------
(* The Dockerfile generator: InitDockerfile draws a rendered Dockerfile,
   PostProcessDockerfile applies the generator to it and PostProcessAgain
   applies the generator to what it returned. *)

MaxLines == 3
LineFrom == <<"FROM", " ", "x">>
DockerLines ==
    {<<>>, LineFrom,
     RunPrefix \o <<"a">>, RunPrefix \o <<"b">>,
     <<" ", " ">> \o RunPrefix \o <<"a">>,
     RunPrefix \o <<"a", " ">>,
     RunPrefix \o RunPrefix \o <<"b">>,
     RunPrefix \o <<"a">> \o AndThen,
     Indent \o <<"b">>,
     RunPrefix}
Dockerfiles == SeqsUpTo(DockerLines, MaxLines) \ {<<>>}

InitDockerfile ==
    /\ doc \in Dockerfiles
    /\ parsed = NotYet
    /\ last = NoOp
    /\ forge = NoForge
    /\ ctorArgs = NoOp
    /\ repos = <<>>
    /\ cache = <<>>
    /\ files = <<>>
    /\ console = <<>>
    /\ providers = <<>>
    /\ context = NotYet

\* generator.post_process_content(content, context) on the rendered text
PostProcessDockerfile ==
    /\ last = NoOp
    /\ last' = [op |-> "post_process", pass |-> 1, content |-> doc,
                ret |-> DockerfilePostProcess(doc)]
    /\ UNCHANGED <<doc, parsed, forge, ctorArgs, repos, cache, files, console,
                   providers, context>>

\* generator.post_process_content(content, context) on what the first
\* application returned
PostProcessAgain ==
    /\ last.op = "post_process"
    /\ last.pass = 1
    /\ last' = [op |-> "post_process", pass |-> 2, content |-> last.ret,
                ret |-> DockerfilePostProcess(last.ret)]
    /\ UNCHANGED <<doc, parsed, forge, ctorArgs, repos, cache, files, console,
                   providers, context>>

NextDockerfile == PostProcessDockerfile \/ PostProcessAgain

SpecDockerfile == InitDockerfile /\ [][NextDockerfile]_vars

----------------------------------------------------------------------------
(* Claims about the Dockerfile generator (SpecDockerfile) *)

\* C25 as the claim has it: the layer optimisation is idempotent, applying
\* it to its own output returns that output unchanged.
C25_AsStated ==
    last.op = "post_process" /\ last.pass = 2 => last.ret = last.content

----------------------------------------------------------------------------
(* Claims about validation and rendering together (SpecPipeline) *)

Validated == IsBuild /\ last.validation.present
TemplateErrors ==
    {last.validation.val.results[3].errors[i].arg :
        i \in DOMAIN last.validation.val.results[3].errors}
Accepted(i) == RenderConfigs[i].template \notin TemplateErrors
\* the renderer finds the template of the i-th instruction on its search path
Locatable(i) ==
    GetTemplate(repos, TemplatePaths(repos, last.cacheAfter, last.loaded.val),
                RenderConfigs[i].template).ok

\* C26 as the claim has it: the template validator accepts the template of
\* a render instruction exactly when the renderer can locate it in the
\* templates directories of the loaded plugins, and a build that passed
\* validation does not fail with "Template not found".
C26_AsStated ==
    Validated =>
        /\ \A i \in DOMAIN RenderConfigs : Accepted(i) <=> Locatable(i)
        /\ Passed => ~(last.raised.type = "TemplateError"
                       /\ last.raised.text = "Template not found")

----------------------------------------------------------------------------
(* Claims about where a build writes (SpecPipeline) *)

\* the files the build created or changed
Written == {p \in DOMAIN files :
                /\ files[p].kind = "file"
                /\ p \notin DOMAIN last.filesBefore \/ last.filesBefore[p] # files[p]}
InsideProjectRoot(p) ==
    /\ Len(p) > Len(ProjectRootPath)
    /\ SubSeq(p, 1, Len(ProjectRootPath)) = ProjectRootPath

\* C27 as the claim has it: every file a build writes lies inside the
\* project root, also when an output is an absolute path or has '..'
\* segments.
C27_AsStated ==
    IsBuild /\ Passed => \A p \in Written : InsideProjectRoot(p)

\* C28 as the claim has it: when the validators report no error, the render
\* instructions of different templates are written to different files, also
\* when their outputs differ as texts and denote one path.
C28_AsStated ==
    Succeeded =>
        \A i, j \in DOMAIN RenderConfigs :
            RenderConfigs[i].template # RenderConfigs[j].template
                => OutputFile(i) # OutputFile(j)

----------------------------------------------------------------------------
(* generators/compose.py.  A rendered text is what yaml.safe_load makes of
   it: [kind |-> "invalid"] when the loader raises YAMLError, else
   [kind |-> "yaml", data |-> v, form |-> f] with v the value loaded (None,
   a scalar, a list or a mapping) and f telling the text as rendered from
   the text yaml.dump writes. *)

KServices == <<"services">>
KRestart == <<"restart">>
KStdinOpen == <<"stdin_open">>
KTty == <<"tty">>
KImage == <<"image">>
PyNone == [t |-> "none"]
PyList == [t |-> "list"]
PyTrue == Leaf(<<"true">>)
UnlessStopped == Leaf(<<"unless-stopped">>)
\* the services a document names, in the order it names them
ServiceOrder == <<<<"web">>, <<"db">>>>
HasAttr(v, attr) ==
    CASE attr = "get" -> v.t = "dict"
      [] attr = "values" -> v.t = "dict"

\* the body of the loop of _add_development_features for one service
AddToService(service_config) ==
    IF service_config.t = "none"
    THEN Raise(Err("TypeError", "argument of type 'NoneType' is not iterable", <<>>))
    ELSE IF service_config.t # "dict"
    THEN Raise(Err("TypeError", "object does not support item assignment", <<>>))
    ELSE Ok(Dict(Update(Update(IF KRestart \in DOMAIN service_config.m
                               THEN <<>> ELSE One(KRestart, UnlessStopped),
                               service_config.m),
                        Update(One(KStdinOpen, PyTrue), One(KTty, PyTrue)))))

\* DockerComposeGenerator._add_development_features(compose_data, context)
AddDevelopmentFeatures(compose_data) ==
    IF ~HasAttr(compose_data, "get")
    THEN Raise(Err("AttributeError", "object has no attribute 'get'", <<>>))
    ELSE LET services == IF KServices \in DOMAIN compose_data.m
                         THEN compose_data.m[KServices] ELSE EmptyDict
         IN IF ~HasAttr(services, "values")
            THEN Raise(Err("AttributeError", "object has no attribute 'values'", <<>>))
            ELSE LET done == [n \in DOMAIN services.m |-> AddToService(services.m[n])]
                     bad == {n \in DOMAIN done : ~done[n].ok}
                 IN IF bad # {}
                    THEN done[ServiceOrder[MinOf({i \in DOMAIN ServiceOrder :
                                                    ServiceOrder[i] \in bad})]]
                    ELSE Ok(IF KServices \in DOMAIN compose_data.m
                            THEN Dict(Update(compose_data.m,
                                    One(KServices,
                                        Dict([n \in DOMAIN done |-> done[n].val]))))
                            ELSE compose_data)

\* DockerComposeGenerator.post_process_content(content, context), with
\* development_mode at its default
ComposePostProcess(content) ==
    IF content.kind = "invalid" THEN Ok(content)
    ELSE LET added == AddDevelopmentFeatures(content.data)
         IN IF ~added.ok THEN added
            ELSE Ok([kind |-> "yaml", data |-> added.val, form |-> "dumped"])

----------------------------------------------------------------------------
(* The compose generator: InitCompose draws a rendered compose text,
   PostProcessCompose applies the generator to it. *)

ServiceConfigs ==
    {PyNone, Leaf(<<"x">>)}
    \cup {Dict(Update(i, r)) :
            i \in {<<>>, One(KImage, Leaf(<<"x">>))},
            r \in {<<>>, One(KRestart, Leaf(<<"always">>)),
                         One(KRestart, UnlessStopped)}}
ServiceMaps ==
    UNION {[names -> ServiceConfigs] : names \in SUBSET Range(ServiceOrder)}
ComposeData ==
    {PyNone, PyList, Leaf(<<"x">>), EmptyDict,
     Dict(One(KServices, PyNone)), Dict(One(KServices, PyList))}
    \cup {Dict(One(KServices, Dict(m))) : m \in ServiceMaps}
ComposeTexts ==
    {[kind |-> "invalid"]}
    \cup {[kind |-> "yaml", data |-> d, form |-> "rendered"] : d \in ComposeData}

InitCompose ==
    /\ doc \in ComposeTexts
    /\ parsed = NotYet
    /\ last = NoOp
    /\ forge = NoForge
    /\ ctorArgs = NoOp
    /\ repos = <<>>
    /\ cache = <<>>
    /\ files = <<>>
    /\ console = <<>>
    /\ providers = <<>>
    /\ context = NotYet

\* generator.post_process_content(content, context) on the rendered text
PostProcessCompose ==
    /\ last = NoOp
    /\ last' = [op |-> "post_process_compose", content |-> doc,
                res |-> ComposePostProcess(doc)]
    /\ UNCHANGED <<doc, parsed, forge, ctorArgs, repos, cache, files, console,
                   providers, context>>

NextCompose == PostProcessCompose

SpecCompose == InitCompose /\ [][NextCompose]_vars

----------------------------------------------------------------------------
(* Claims about the compose generator (SpecCompose) *)

IsCompose == last.op = "post_process_compose"
\* the text is a compose document: a mapping whose services, if any, are a
\* mapping of mappings
Processable(content) ==
    /\ content.kind = "yaml"
    /\ content.data.t = "dict"
    /\ KServices \in DOMAIN content.data.m =>
        /\ content.data.m[KServices].t = "dict"
        /\ \A n \in DOMAIN content.data.m[KServices].m :
                content.data.m[KServices].m[n].t = "dict"
ServicesOf(content) ==
    IF KServices \in DOMAIN content.data.m THEN content.data.m[KServices].m ELSE <<>>

\* C29 as the claim has it: post_process_content never raises; a text that
\* is not a compose document is returned unmodified, and in a compose
\* document every service keeps the restart key it had or else gets
\* restart 'unless-stopped'.
C29_AsStated ==
    IsCompose =>
        /\ last.res.ok
        /\ ~Processable(last.content) => last.res.val = last.content
        /\ Processable(last.content) =>
            \A n \in DOMAIN ServicesOf(last.content) :
                ServicesOf(last.res.val)[n].m[KRestart]
                    = IF KRestart \in DOMAIN ServicesOf(last.content)[n].m
                      THEN ServicesOf(last.content)[n].m[KRestart]
                      ELSE UnlessStopped

----------------------------------------------------------------------------
(* Two loads of one plugin against one cache directory.  PluginManager takes
   no lock, so the steps of _ensure_plugin_available of the loaders
   interleave: the test plugin_path.exists(), git clone (which makes the
   directory when it starts and has a checkout in it when it ends),
   Repo(plugin_path) with fetch and checkout, shutil.rmtree.  `cache` holds
   what is at cache_dir/name and which loader's clone made it; `last` holds
   for every loader where it stands (pc), how its load ended (res), what
   its test of plugin_path.exists() found (found), whether it met the
   directory another loader was still cloning (met) and whether
   another load was under way while it ran (overlapped).  Git itself does
   not fail here: a load fails only through what another loader did. *)

MaxLoaders == 2
Loaders == 1..MaxLoaders
Entry(state, by) == [state |-> state, by |-> by]
InFlight(l) == l.pc \in {"exists", "clone", "cloning", "update"}

\* what Repo(plugin_path), fetch and checkout make of the entry: the
\* checkout of a finished clone is a repository; a directory that is no
\* checkout is invalid; a clone under way may be read as either, and a
\* fetch or checkout in it may fail or succeed
OpenRepoWithoutReclone(entry) ==
    CASE entry.state = "absent" -> {"NoSuchPathError"}
      [] entry.state = "repo" -> {"ok"}
      [] entry.state = "dir" -> {"GitCommandError"}
      [] entry.state = "cloning" -> {"InvalidGitRepositoryError", "GitCommandError", "ok"}
OpenRepo(entry) ==
    CASE entry.state = "absent" -> {"NoSuchPathError"}
      [] entry.state = "repo" -> {"ok"}
      [] entry.state = "dir" -> {"InvalidGitRepositoryError"}
      [] entry.state = "cloning" -> {"InvalidGitRepositoryError", "GitCommandError", "ok"}

InitLoaders ==
    /\ cache \in {Entry(st, 0) : st \in {"absent", "repo", "dir"}}
    /\ last = [p \in Loaders |->
                [pc |-> "idle", res |-> NoError, found |-> "", met |-> FALSE,
                 overlapped |-> FALSE]]
    /\ doc = <<>>
    /\ parsed = NotYet
    /\ forge = NoForge
    /\ ctorArgs = NoOp
    /\ repos = <<>>
    /\ files = <<>>
    /\ console = <<>>
    /\ providers = <<>>
    /\ context = NotYet

Others == <<doc, parsed, forge, ctorArgs, repos, files, console, providers, context>>

\* a loader enters _ensure_plugin_available
StartLoad(p) ==
    /\ last[p].pc = "idle"
    /\ LET busy == {q \in Loaders \ {p} : InFlight(last[q])}
       IN last' = [q \in Loaders |->
                    IF q = p THEN [last[q] EXCEPT !.pc = "exists",
                                                  !.overlapped = busy # {}]
                    ELSE IF q \in busy THEN [last[q] EXCEPT !.overlapped = TRUE]
                    ELSE last[q]]
    /\ UNCHANGED <<cache, Others>>

\* if plugin_path.exists(): ... else: ...
TestExists(p) ==
    /\ last[p].pc = "exists"
    /\ last' = [last EXCEPT ![p].pc = IF cache.state = "absent" THEN "clone"
                                      ELSE "update",
                            ![p].found = cache.state,
                            ![p].met = @ \/ cache.state = "cloning"]
    /\ UNCHANGED <<cache, Others>>

\* _clone_plugin: Repo.clone_from starts.  Into a path that is taken git
\* refuses to clone: GitCommandError, the handler removes what is at the
\* path and raises GitOperationError
BeginClone(p) ==
    /\ last[p].pc = "clone"
    /\ IF cache.state = "absent"
       THEN /\ cache' = Entry("cloning", p)
            /\ last' = [last EXCEPT ![p].pc = "cloning"]
       ELSE /\ cache' = Entry("absent", 0)
            /\ last' = [last EXCEPT ![p].pc = "failed",
                            ![p].res = Err("GitOperationError", "Failed to clone plugin",
                                           NameC),
                            ![p].met = @ \/ cache.state = "cloning"]
    /\ UNCHANGED Others

\* _clone_plugin: Repo.clone_from and the checkout end.  The clone whose
\* directory was removed or replaced meanwhile fails: GitCommandError, the
\* handler removes what is at the path and raises GitOperationError
EndClone(p) ==
    /\ last[p].pc = "cloning"
    /\ IF cache = Entry("cloning", p)
       THEN /\ cache' = Entry("repo", p)
            /\ last' = [last EXCEPT ![p].pc = "done"]
       ELSE /\ cache' = Entry("absent", 0)
            /\ last' = [last EXCEPT ![p].pc = "failed",
                            ![p].res = Err("GitOperationError", "Failed to clone plugin",
                                           NameC)]
    /\ UNCHANGED Others

\* _update_plugin: Repo(plugin_path), fetch, checkout; a directory that is
\* no repository is removed and cloned again
OpenAndUpdate(p) ==
    /\ last[p].pc = "update"
    /\ \E opened \in OpenRepo(cache) :
        /\ cache' = IF opened = "InvalidGitRepositoryError" THEN Entry("absent", 0)
                    ELSE cache
        /\ last' = [last EXCEPT
                ![p].met = @ \/ cache.state = "cloning",
                ![p].pc = CASE opened = "ok" -> "done"
                            [] opened = "InvalidGitRepositoryError" -> "clone"
                            [] OTHER -> "failed",
                ![p].res = CASE opened = "GitCommandError" ->
                                    Err("GitOperationError", "Failed to update plugin",
                                        NameC)
                             [] opened = "NoSuchPathError" ->
                                    Err("NoSuchPathError", "", NameC)
                             [] OTHER -> @]
    /\ UNCHANGED Others

NextLoaders ==
    \E p \in Loaders :
        \/ StartLoad(p)
        \/ TestExists(p)
        \/ BeginClone(p)
        \/ EndClone(p)
        \/ OpenAndUpdate(p)

SpecLoaders == InitLoaders /\ [][NextLoaders]_vars

----------------------------------------------------------------------------
(* Claims about concurrent loads (SpecLoaders) *)

Ended(p) == last[p].pc \in {"done", "failed"}
Failed(p) == last[p].pc = "failed"
AllEnded == \A p \in Loaders : Ended(p)

\* C30: the loads of one plugin race only when they run at the same time.
\* A load that ran while no other load was under way succeeds and leaves a
\* valid checkout; a load fails, or the loads end with no valid checkout in
\* the cache, only if loads overlapped and one of them met the directory
\* another was still cloning or lost its own clone to the other.
C30_LoadsRaceOnlyWhenOverlapping ==
    /\ \A p \in Loaders : Failed(p) => last[p].overlapped
    /\ \A p \in Loaders :
        last[p].pc = "done" /\ ~last[p].overlapped
        /\ (\A q \in Loaders \ {p} : ~InFlight(last[q]))
            => cache.state = "repo"
    /\ AllEnded /\ cache.state # "repo" => \E p \in Loaders : last[p].overlapped

\* two loads have ended: one found the directory the other was still
\* cloning, took it for a corrupted checkout, removed it and cloned again;
\* the other load failed
C30_Witness ==
    /\ AllEnded
    /\ \E p \in Loaders :
        /\ last[p].found = "cloning"
        /\ last[p].overlapped
        /\ last[p].pc = "done"
        /\ cache = Entry("repo", p)
        /\ \E q \in Loaders \ {p} :
            Failed(q) /\ last[q].res.type = "GitOperationError"

====
